---- MODULE Spec2Model ----
(***************************************************************************)
(* Messaging access control and conversation resolution of the PhysiHome   *)
(* web application (src/app/routers/web.py), with the user-record          *)
(* operations of src/app/routers/auth.py that change who is restricted.    *)
(*                                                                         *)
(* Python values are sequences of strings: a str is the sequence of its    *)
(* one-character strings, and None, True, False and the integer 1 are      *)
(* one-element sequences holding a token longer than one character, so     *)
(* that "true" (a str) and True (a bool) stay different values.            *)
(* ObjectIds are natural numbers: str(ObjectId) is a fixed-width hex       *)
(* string, whose order under sorted() is the order of the numbers.         *)
(***************************************************************************)
EXTENDS Integers, Sequences, FiniteSets, TLC

VARIABLES
    users,          \* db.users: set of user documents
    conversations,  \* db.conversations: sequence of documents, in insertion order
    messages,       \* db.messages: sequence of documents, in insertion order
    nextId,         \* the next ObjectId the driver generates
    clock,          \* datetime.utcnow()
    last,           \* the last request handled and its response
    settings,       \* the configuration the process was started with
    pUser,          \* input of the predicate checks: a user document or NoUser
    pConvo,         \* input of the access check: a conversation document
    pOut,           \* results of the predicate checks
    reqs,           \* requests in flight (interleaved handlers)
    pending_users   \* db.pending_users: doctor signups awaiting their OTP

vars == <<users, conversations, messages, nextId, clock, last, settings, pUser, pConvo, pOut,
          reqs, pending_users>>

-----------------------------------------------------------------------------
(* Python values and str methods *)

None == <<"<None>">>
PyTrue == <<"<True>">>
PyFalse == <<"<False>">>
PyOne == <<"<1>">>

sEmpty == <<>>
sVerified == <<"v", "e", "r", "i", "f", "i", "e", "d">>
sPending == <<"p", "e", "n", "d", "i", "n", "g">>
sRejected == <<"r", "e", "j", "e", "c", "t", "e", "d">>
sDoctor == <<"d", "o", "c", "t", "o", "r">>
sAdmin == <<"a", "d", "m", "i", "n">>
sUser == <<"u", "s", "e", "r">>

\* bool(v): None, False and the empty str are falsy
Truthy(v) == v \notin {None, PyFalse, sEmpty}

\* v or d
PyOr(v, d) == IF Truthy(v) THEN v ELSE d

\* str(v)
PyStr(v) ==
    CASE v = None -> <<"N", "o", "n", "e">>
      [] v = PyTrue -> <<"T", "r", "u", "e">>
      [] v = PyFalse -> <<"F", "a", "l", "s", "e">>
      [] v = PyOne -> <<"1">>
      [] OTHER -> v

IsStr(v) == v \notin {None, PyTrue, PyFalse, PyOne}

Whitespace == {" ", "\t", "\n"}

UpperToLower ==
    ("A" :> "a") @@ ("B" :> "b") @@ ("C" :> "c") @@ ("D" :> "d") @@ ("E" :> "e") @@
    ("F" :> "f") @@ ("G" :> "g") @@ ("H" :> "h") @@ ("I" :> "i") @@ ("J" :> "j") @@
    ("K" :> "k") @@ ("L" :> "l") @@ ("M" :> "m") @@ ("N" :> "n") @@ ("O" :> "o") @@
    ("P" :> "p") @@ ("Q" :> "q") @@ ("R" :> "r") @@ ("S" :> "s") @@ ("T" :> "t") @@
    ("U" :> "u") @@ ("V" :> "v") @@ ("W" :> "w") @@ ("X" :> "x") @@ ("Y" :> "y") @@
    ("Z" :> "z")

\* str.lower()
Lower(s) == [i \in 1..Len(s) |-> IF s[i] \in DOMAIN UpperToLower THEN UpperToLower[s[i]] ELSE s[i]]

RECURSIVE LStrip(_)
LStrip(s) == IF s # <<>> /\ Head(s) \in Whitespace THEN LStrip(Tail(s)) ELSE s

RECURSIVE RStrip(_)
RStrip(s) ==
    IF s # <<>> /\ s[Len(s)] \in Whitespace THEN RStrip(SubSeq(s, 1, Len(s) - 1)) ELSE s

\* str.strip()
Strip(s) == RStrip(LStrip(s))

\* str(v or "").strip().lower()
NormField(v) == Lower(Strip(PyStr(PyOr(v, sEmpty))))

-----------------------------------------------------------------------------
(* Configuration *)

\* a configured settings.admin_emails (ADMIN_EMAILS): raw, unnormalised; the default
\* is the empty list
admin_emails == << <<" ", "M", "@", "x">> >>

Settings(emails) == [admin_emails |-> emails]

\* _admin_emails(): the normalised, deduplicated emails. The code returns them
\* sorted; the order only fixes the order in which the mailboxes are reconciled.
_admin_emails ==
    {Lower(Strip(settings.admin_emails[i])) :
        i \in {j \in 1..Len(settings.admin_emails) : Truthy(settings.admin_emails[j])}}

-----------------------------------------------------------------------------
(* Access policy predicates *)

\* the session resolver found no user
NoUser == [absent |-> TRUE]

_is_admin_user(user) ==
    IF user = NoUser THEN FALSE
    ELSE IF user.is_admin \in {PyTrue, PyOne, <<"1">>, <<"t", "r", "u", "e">>,
                               <<"T", "r", "u", "e">>, <<"T", "R", "U", "E">>} THEN TRUE
    ELSE IF NormField(user.role) = sAdmin THEN TRUE
    ELSE LET email == NormField(user.email)
         IN  Truthy(email) /\ email \in _admin_emails

\* faulty variant: the restricted flag is looked at before the admin check
_is_messaging_restricted_flag_first(user) ==
    IF user = NoUser THEN TRUE
    ELSE IF Truthy(user.restricted) THEN TRUE
    ELSE IF _is_admin_user(user) THEN FALSE
    ELSE FALSE

\* faulty variant: the doctor fallback chain stops at the secondary "status" field
_is_messaging_restricted_no_tertiary(user) ==
    IF user = NoUser THEN TRUE
    ELSE IF _is_admin_user(user) THEN FALSE
    ELSE IF Truthy(user.restricted) THEN TRUE
    ELSE IF user.doctor_verification_status # None
            /\ NormField(user.doctor_verification_status) # sVerified THEN TRUE
    ELSE IF NormField(user.role) = sDoctor
         THEN LET raw_status == IF user.doctor_verification_status # None
                                THEN user.doctor_verification_status
                                ELSE user.status
              IN  NormField(raw_status) # sVerified
    ELSE FALSE

_is_messaging_restricted(user) ==
    IF user = NoUser THEN TRUE
    ELSE IF _is_admin_user(user) THEN FALSE
    ELSE IF Truthy(user.restricted) THEN TRUE
    ELSE IF user.doctor_verification_status # None
            /\ NormField(user.doctor_verification_status) # sVerified THEN TRUE
    ELSE IF NormField(user.role) = sDoctor
         THEN LET raw_status0 == IF user.doctor_verification_status # None
                                 THEN user.doctor_verification_status
                                 ELSE user.status
                  raw_status == IF raw_status0 = None THEN user.verification_status
                                ELSE raw_status0
              IN  NormField(raw_status) # sVerified
    ELSE FALSE

-----------------------------------------------------------------------------
(* Sorting, as sorted() does it *)

\* code points of the characters the model's strings use, ascending
CharOrder ==
    <<"\t", "\n", " ", ".", "1", "@", "A", "D", "M", "P", "T", "X",
      "a", "d", "m", "p", "u", "x">>

Ord(c) == IF \E i \in 1..Len(CharOrder) : CharOrder[i] = c
          THEN CHOOSE i \in 1..Len(CharOrder) : CharOrder[i] = c
          ELSE Len(CharOrder) + 1

RECURSIVE StrLess(_, _)
StrLess(a, b) ==
    IF b = <<>> THEN FALSE
    ELSE IF a = <<>> THEN TRUE
    ELSE IF Head(a) # Head(b) THEN Ord(Head(a)) < Ord(Head(b))
    ELSE StrLess(Tail(a), Tail(b))

RECURSIVE SortedStrs(_)
SortedStrs(S) ==
    IF S = {} THEN <<>>
    ELSE LET m == CHOOSE x \in S : \A y \in S \ {x} : StrLess(x, y)
         IN  <<m>> \o SortedStrs(S \ {m})

RECURSIVE Insert(_, _)
Insert(x, s) ==
    IF s = <<>> THEN <<x>>
    ELSE IF x <= Head(s) THEN <<x>> \o s
    ELSE <<Head(s)>> \o Insert(x, Tail(s))

\* sorted(list) of ids
RECURSIVE Sorted(_)
Sorted(s) == IF s = <<>> THEN <<>> ELSE Insert(Head(s), Sorted(Tail(s)))

\* sorted(set) of ids
RECURSIVE SortedSet(_)
SortedSet(S) ==
    IF S = {} THEN <<>>
    ELSE LET m == CHOOSE x \in S : \A y \in S : x <= y
         IN  <<m>> \o SortedSet(S \ {m})

Range(s) == {s[i] : i \in 1..Len(s)}

-----------------------------------------------------------------------------
(* Storage: documents and queries *)

\* an id string ObjectId() rejects
Malformed == -1

UserDoc(id, is_admin, role, email, dvs, status, vstatus, restricted, created_at) ==
    [_id |-> id, is_admin |-> is_admin, role |-> role, email |-> email,
     doctor_verification_status |-> dvs, status |-> status,
     verification_status |-> vstatus, restricted |-> restricted,
     created_at |-> created_at]

\* db.users.find_one({"_id": ObjectId(id)}); also for an id ObjectId() rejects
FindUser(us, id) ==
    IF \E u \in us : u._id = id THEN CHOOSE u \in us : u._id = id ELSE NoUser

\* get_user_from_request: the session cookie names a user id, or there is none
get_user_from_request(us, uid) == FindUser(us, uid)

\* re.compile("^" + re.escape(e) + "$", re.IGNORECASE) against a stored value
RegexMatch(e, v) == IsStr(v) /\ (Lower(v) = e \/ Lower(v) = e \o <<"\n">>)

\* the roster query of _get_admin_users
AdminQuery(us) ==
    {u \in us :
        \/ u.is_admin = PyTrue
        \/ u.is_admin \in {PyOne, <<"1">>, <<"t", "r", "u", "e">>,
                           <<"T", "r", "u", "e">>, <<"T", "R", "U", "E">>}
        \/ u.role \in {sAdmin, <<"A", "d", "m", "i", "n">>, <<"A", "D", "M", "I", "N">>}
        \/ /\ _admin_emails # {}
           /\ \/ u.email \in _admin_emails
              \/ \E e \in _admin_emails : RegexMatch(e, u.email)}

\* {"$expr": {"$eq": [{"$toLower": {"$trim": {"input": "$email"}}}, email_clean]}}
NormalizedEmailMatch(us, email_clean) ==
    {u \in us : IsStr(u.email) /\ Lower(Strip(u.email)) = email_clean}

\* faulty variant: the mailbox is inserted without looking for a record of that email
ReconcileEmail_always_insert(us, nid, now, email) ==
    {[users |-> us \cup {UserDoc(nid, PyTrue, sUser, Lower(Strip(email)),
                                  None, None, None, None, now)},
      nextId |-> nid + 1]}

\* faulty variant: any of the matching records is kept, not the oldest
ReconcileEmail_keep_any(us, nid, now, email) ==
    LET email_clean == Lower(Strip(PyStr(PyOr(email, sEmpty))))
        dupes == NormalizedEmailMatch(us, email_clean)
    IN  IF ~Truthy(email_clean) THEN {[users |-> us, nextId |-> nid]}
        ELSE IF dupes # {}
        THEN {[users |-> (us \ dupes) \cup
                         {[keep EXCEPT !.is_admin = PyTrue, !.email = email_clean]},
               nextId |-> nid] : keep \in dupes}
        ELSE {[users |-> us \cup {UserDoc(nid, PyTrue, sUser, email_clean,
                                          None, None, None, None, now)},
               nextId |-> nid + 1]}

\* One turn of the mailbox loop of _get_admin_users, for one configured email:
\* the possible stores after it (which of several equally old duplicates sorts
\* first is the storage's choice).
ReconcileEmail(us, nid, now, email) ==
    LET email_clean == Lower(Strip(PyStr(PyOr(email, sEmpty))))
        dupes == NormalizedEmailMatch(us, email_clean)
        oldest == {d \in dupes : \A o \in dupes : d.created_at <= o.created_at}
    IN  IF ~Truthy(email_clean) THEN {[users |-> us, nextId |-> nid]}
        ELSE IF dupes # {}
        THEN {[users |-> (us \ dupes) \cup
                         {[keep EXCEPT !.is_admin = PyTrue, !.email = email_clean]},
               nextId |-> nid] : keep \in oldest}
        ELSE {[users |-> us \cup {UserDoc(nid, PyTrue, sUser, email_clean,
                                          None, None, None, None, now)},
               nextId |-> nid + 1]}

RECURSIVE ReconcileAll(_, _, _, _)
ReconcileAll(us, nid, now, emails) ==
    IF emails = <<>> THEN {[users |-> us, nextId |-> nid]}
    ELSE UNION {ReconcileAll(r.users, r.nextId, now, Tail(emails)) :
                    r \in ReconcileEmail(us, nid, now, Head(emails))}

\* _get_admin_users(db, ensure_mailboxes=True): the possible (store, roster) pairs
_get_admin_users(us, nid, now) ==
    {[users |-> r.users, nextId |-> r.nextId, admins |-> AdminQuery(r.users)] :
        r \in ReconcileAll(us, nid, now, SortedStrs(_admin_emails))}

\* _get_admin_ids
_get_admin_ids(us, nid, now) ==
    {[users |-> r.users, nextId |-> r.nextId, admin_ids |-> {a._id : a \in r.admins}] :
        r \in _get_admin_users(us, nid, now)}

-----------------------------------------------------------------------------
(* The predicates on their own: every user record over bounded field values *)

NoRequest == [status |-> 0, location |-> "", error |-> ""]
NotEvaluated == [evaluated |-> FALSE]

IsAdminValues == {None, PyFalse, PyTrue, <<"T", "R", "U", "E">>, <<"y">>}
RoleValues ==
    {None, sUser, sDoctor, <<"D", "o", "c", "t", "o", "r", " ">>, sAdmin,
     <<" ", "A", "D", "M", "I", "N">>}
EmailValues == {None, <<"m", "@", "x">>, <<"M", "@", "X", " ">>, <<"p", "@", "x">>}
DvsValues ==
    {None, sVerified, <<" ", "V", "e", "r", "i", "f", "i", "e", "d">>, sPending, sEmpty}
StatusValues == {None, sVerified, sPending}
VStatusValues == {None, <<"V", "E", "R", "I", "F", "I", "E", "D">>, sRejected}
RestrictedValues == {None, PyFalse, PyTrue}

UserInputs ==
    {UserDoc(1, a, r, e, d, s, v, f, 0) :
        a \in IsAdminValues, r \in RoleValues, e \in EmailValues, d \in DvsValues,
        s \in StatusValues, v \in VStatusValues, f \in RestrictedValues}

InitRestricted ==
    /\ pUser \in UserInputs \cup {NoUser}
    /\ pOut = NotEvaluated
    /\ pConvo = <<>>
    /\ users = {}
    /\ conversations = <<>>
    /\ messages = <<>>
    /\ nextId = 1
    /\ clock = 1
    /\ settings = Settings(admin_emails)
    /\ last = NoRequest
    /\ reqs = <<>>
    /\ pending_users = {}

\* a caller evaluates both predicates on the record
EvalPredicates ==
    /\ pOut = NotEvaluated
    /\ pOut' = [evaluated |-> TRUE,
                is_admin |-> _is_admin_user(pUser),
                restricted |-> _is_messaging_restricted(pUser)]
    /\ UNCHANGED <<users, conversations, messages, nextId, clock, last, settings, pUser, pConvo, reqs, pending_users>>

NextRestricted == EvalPredicates

SpecRestricted == InitRestricted /\ [][NextRestricted]_vars

\* C2: a user for whom _is_admin_user holds is never classified messaging-restricted,
\* whatever its restricted flag, role and verification-status fields are.
C2_AdminNeverRestricted ==
    (pOut.evaluated /\ pOut.is_admin) => ~pOut.restricted

\* an admin whose record carries the restricted flag and a non-verified doctor status
C2_Witness ==
    /\ pOut.evaluated /\ pOut.is_admin
    /\ pUser.restricted = PyTrue
    /\ pUser.role = sDoctor
    /\ pUser.doctor_verification_status = sPending

\* the first non-null of doctor_verification_status, status, verification_status
FirstStatus(u) ==
    IF u.doctor_verification_status # None THEN u.doctor_verification_status
    ELSE IF u.status # None THEN u.status
    ELSE u.verification_status

\* the right-hand side of C3, with the role test as a parameter
C3_Rule(u, isDoctor) ==
    \/ u = NoUser
    \/ /\ ~_is_admin_user(u)
       /\ \/ Truthy(u.restricted)
          \/ /\ u.doctor_verification_status # None
             /\ Lower(Strip(PyStr(u.doctor_verification_status))) # sVerified
          \/ /\ isDoctor
             /\ (FirstStatus(u) = None
                 \/ Lower(Strip(PyStr(FirstStatus(u)))) # sVerified)

\* C3 as stated: the doctor clause applies when role is "doctor"
C3_AsStated ==
    pOut.evaluated =>
        (pOut.restricted <=> C3_Rule(pUser, pUser # NoUser /\ pUser.role = sDoctor))

\* C3 amended: _is_messaging_restricted is true exactly when the user is absent, or
\* is not an admin and (the restricted flag is set, or doctor_verification_status is
\* present and not "verified" after trimming and lower-casing, or the role is "doctor"
\* after trimming and lower-casing and the first non-null of doctor_verification_status,
\* status, verification_status is not "verified" after trimming and lower-casing).
C3_RestrictedExactly ==
    pOut.evaluated =>
        (pOut.restricted <=>
            C3_Rule(pUser, pUser # NoUser /\ Lower(Strip(PyStr(PyOr(pUser.role, sEmpty)))) = sDoctor))

\* a doctor whose only status field is the tertiary one, and it is not verified
C3_Witness ==
    /\ pOut.evaluated /\ pOut.restricted
    /\ pUser # NoUser
    /\ pUser.role = sDoctor
    /\ pUser.doctor_verification_status = None /\ pUser.status = None
    /\ pUser.verification_status = sRejected
    /\ ~Truthy(pUser.restricted) /\ ~pOut.is_admin

-----------------------------------------------------------------------------
(* The access check for a restricted requester *)

Others(participants, user_id) ==
    LET other(pid) == pid # user_id IN SelectSeq(participants, other)

AllIn(ids, S) == \A i \in 1..Len(ids) : ids[i] \in S

\* faulty variant: no per-user fallback for a non-doctor
_restricted_can_access_conversation_no_fallback(us, nid, now, user, convo) ==
    LET other_ids == Others(convo.participants, user._id)
    IN  IF other_ids = <<>> THEN {[users |-> us, nextId |-> nid, ok |-> FALSE]}
        ELSE {[users |-> r.users, nextId |-> r.nextId,
               ok |-> r.admin_ids # {} /\ AllIn(other_ids, r.admin_ids)] :
                  r \in _get_admin_ids(us, nid, now)}

\* The possible (store, answer) pairs: resolving the admin ids reconciles the
\* admin mailboxes, so the call may change db.users.
_restricted_can_access_conversation(us, nid, now, user, convo) ==
    LET user_id == user._id
        role == NormField(user.role)
        other_ids == Others(convo.participants, user_id)
    IN  IF other_ids = <<>> THEN {[users |-> us, nextId |-> nid, ok |-> FALSE]}
        ELSE {[users |-> r.users, nextId |-> r.nextId,
               ok |-> IF role = sDoctor
                      THEN r.admin_ids # {} /\ AllIn(other_ids, r.admin_ids)
                      ELSE IF r.admin_ids # {} /\ AllIn(other_ids, r.admin_ids) THEN TRUE
                      ELSE \A i \in 1..Len(other_ids) :
                              _is_admin_user(FindUser(r.users, other_ids[i]))] :
                  r \in _get_admin_ids(us, nid, now)}

\* Stored users the access check is tried on: restricted requesters 1..3, an admin by
\* flag, an admin by a padded role spelling (no roster query matches it), and two
\* equally old records of the configured admin email.
AccessPool ==
    {UserDoc(1, PyFalse, sDoctor, <<"d", "@", "x">>, sPending, None, None, None, 0),
     UserDoc(2, PyFalse, <<"D", "o", "c", "t", "o", "r", " ">>, <<"a", "@", "x">>,
             sPending, None, None, None, 0),
     UserDoc(3, PyFalse, sUser, <<"p", "@", "x">>, None, None, None, PyTrue, 0),
     UserDoc(4, PyTrue, sUser, <<"u", "@", "x">>, None, None, None, None, 0),
     UserDoc(5, None, <<" ", "A", "D", "M", "I", "N">>, <<"x", "@", "x">>,
             None, None, None, None, 0),
     UserDoc(6, None, sUser, <<"M", "@", "X", " ">>, None, None, None, None, 0),
     UserDoc(7, None, sUser, <<"m", "@", "x">>, None, None, None, None, 0)}

\* the first id the driver generates after the pool
AccessFreshId == Cardinality(AccessPool) + 1

\* participant sequences: sorted sets of up to three ids, and the repeated pair
AccessParticipants ==
    {SortedSet(S) : S \in {T \in SUBSET (1..AccessFreshId) : Cardinality(T) \in 1..3}}
        \cup {<<i, i>> : i \in 1..3}

InitAccess ==
    /\ users \in {S \in SUBSET AccessPool : \E u \in S : u._id \in 1..3}
    /\ pUser \in {u \in users : u._id \in 1..3}
    /\ pConvo \in {[participants |-> ps] : ps \in AccessParticipants}
    /\ pOut = NotEvaluated
    /\ conversations = <<>>
    /\ messages = <<>>
    /\ nextId = AccessFreshId
    /\ clock = 1
    /\ settings = Settings(admin_emails)
    /\ last = NoRequest
    /\ reqs = <<>>
    /\ pending_users = {}

EvalAccess ==
    /\ pOut = NotEvaluated
    /\ \E r \in _restricted_can_access_conversation(users, nextId, clock, pUser, pConvo) :
          /\ users' = r.users
          /\ nextId' = r.nextId
          /\ pOut' = [evaluated |-> TRUE, ok |-> r.ok]
    /\ UNCHANGED <<conversations, messages, clock, last, settings, pUser, pConvo, reqs, pending_users>>

NextAccess == EvalAccess

SpecAccess == InitAccess /\ [][NextAccess]_vars

\* the admin identity set a call resolves: the roster of the reconciled store
AdminIdsOf(us) == {a._id : a \in AdminQuery(us)}

\* the right-hand side of C4, with the role test as a parameter
C4_Rule(us, user, participants, isDoctor) ==
    LET otherIds == Range(participants) \ {user._id}
    IN  /\ otherIds # {}
        /\ IF isDoctor
           THEN AdminIdsOf(us) # {} /\ otherIds \subseteq AdminIdsOf(us)
           ELSE \/ otherIds \subseteq AdminIdsOf(us)
                \/ \A pid \in otherIds :
                      \E u \in us : u._id = pid /\ _is_admin_user(u)

-----------------------------------------------------------------------------
(* The database as one value, conversations and messages *)

\* _ensure_admin_conversation returns None; a response names no thread
NoId == 0

\* the request carries no valid session cookie
NoSession == -2

\* the path segment of GET /messages/start-admin, which /messages/{thread_id} matches
StartAdminPath == -3

Db(us, cs, ms, nid) == [users |-> us, conversations |-> cs, messages |-> ms, nextId |-> nid]

\* a response: status code, redirect target, the thread it names, error text, and
\* the message bodies it carries
Resp(status, location, thread, error, bodies) ==
    [status |-> status, location |-> location, thread |-> thread, error |-> error,
     messages |-> bodies]

Redirect(location, thread) == Resp(303, location, thread, "", <<>>)

\* _restricted_access_error()
_restricted_access_error == "Please wait for admin to verify your account."

\* the key _fernet() derives from settings.secret_key
FernetKey == <<"urlsafe_b64encode", <<"sha256", "CHANGE_ME">>>>

\* faulty variant: the body is stored in the clear, under no key
_encrypt_text_clear(text) == [key |-> <<"none">>, plaintext |-> text]

\* _fernet().encrypt(text): a token that only the key it was made under opens
_encrypt_text(text) == [key |-> FernetKey, plaintext |-> text]

\* faulty variant: the token is opened whatever key it was made under
_decrypt_text_any_key(token) == token.plaintext

\* _fernet().decrypt(token), "" on InvalidToken
_decrypt_text(token) == IF token.key = FernetKey THEN token.plaintext ELSE sEmpty

NewConversation(id, participants, now) ==
    [_id |-> id, participants |-> participants, created_at |-> now, updated_at |-> now,
     last_read_at |-> <<>>]

\* faulty variant: the lookup matches on _id alone
FindConversation_any(cs, convo_oid, user_id) ==
    {i \in 1..Len(cs) : cs[i]._id = convo_oid}

\* indexes of the documents matching {"_id": convo_oid, "participants": user_id}
FindConversation(cs, convo_oid, user_id) ==
    {i \in 1..Len(cs) : cs[i]._id = convo_oid /\ user_id \in Range(cs[i].participants)}

\* indexes of the documents matching {"participants": participants}: the same array
\* faulty variant: a conversation of the same first participant is taken for the one
\* looked for
FindByParticipants_first_member(cs, participants) ==
    {i \in 1..Len(cs) : cs[i].participants # <<>> /\ cs[i].participants[1] = participants[1]}

FindByParticipants(cs, participants) ==
    {i \in 1..Len(cs) : cs[i].participants = participants}

\* faulty variant: the lookup by $all and $size finds nothing
FindByAllParticipants_none(cs, participants) == {}

\* indexes matching {"participants": {"$all": participants}, "$expr": {"$eq":
\* [{"$size": "$participants"}, len(participants)]}}
FindByAllParticipants(cs, participants) ==
    {i \in 1..Len(cs) : /\ Range(participants) \subseteq Range(cs[i].participants)
                        /\ Len(cs[i].participants) = Len(participants)}

\* faulty variant: the read mark is written one tick in the past
SetReadMark_stale(cs, convo_oid, user_id, now) ==
    [i \in 1..Len(cs) |->
        IF cs[i]._id = convo_oid
        THEN [cs[i] EXCEPT !.last_read_at =
                 (user_id :> now - 1) @@ [k \in DOMAIN @ \ {user_id} |-> @[k]]]
        ELSE cs[i]]

\* faulty variant: the whole last_read_at map is replaced
SetReadMark_whole(cs, convo_oid, user_id, now) ==
    [i \in 1..Len(cs) |->
        IF cs[i]._id = convo_oid
        THEN [cs[i] EXCEPT !.last_read_at = (user_id :> now)]
        ELSE cs[i]]

\* {"$set": {"last_read_at.<user_id>": now}} on the conversation convo_oid
SetReadMark(cs, convo_oid, user_id, now) ==
    [i \in 1..Len(cs) |->
        IF cs[i]._id = convo_oid
        THEN [cs[i] EXCEPT !.last_read_at =
                 (user_id :> now) @@ [k \in DOMAIN @ \ {user_id} |-> @[k]]]
        ELSE cs[i]]

\* faulty variant: the conversation document is replaced by a fresh one
SetUpdatedAt_replace(cs, convo_oid, now) ==
    [i \in 1..Len(cs) |->
        IF cs[i]._id = convo_oid
        THEN [cs[i] EXCEPT !.updated_at = now, !.created_at = now]
        ELSE cs[i]]

\* {"$set": {"updated_at": now}} on the conversation convo_oid
SetUpdatedAt(cs, convo_oid, now) ==
    [i \in 1..Len(cs) |->
        IF cs[i]._id = convo_oid THEN [cs[i] EXCEPT !.updated_at = now] ELSE cs[i]]

\* the messages of a conversation, ascending by created_at (insertion order among
\* equal timestamps), decrypted for the viewer
RECURSIVE ByCreatedAt(_)
ByCreatedAt(ms) ==
    IF ms = <<>> THEN <<>>
    ELSE LET i == CHOOSE k \in 1..Len(ms) :
                      /\ \A j \in 1..Len(ms) : ms[k].created_at <= ms[j].created_at
                      /\ \A j \in 1..(k - 1) : ms[j].created_at > ms[k].created_at
         IN  <<ms[i]>> \o ByCreatedAt(SubSeq(ms, 1, i - 1) \o SubSeq(ms, i + 1, Len(ms)))

\* the request carries no after parameter (or an empty one)
NoAfter == -1

\* an after parameter datetime.fromisoformat() rejects
BadAfter == -2

\* the after parameters a poll may carry now: none, an unparsable one, or the time
\* of a message the client has seen
AfterValues(now) == {NoAfter, BadAfter} \cup 0..now

\* if after: try: query["created_at"] = {"$gt": after_dt} except: pass
HasAfter(after) == after \notin {NoAfter, BadAfter}

\* faulty variant: the created_at filter lets the message at the after time through
AfterFilter_inclusive(after, created_at) == HasAfter(after) => created_at >= after

\* query["created_at"] = {"$gt": after_dt}, set only for an after that parses
AfterFilter(after, created_at) == HasAfter(after) => created_at > after

MessageView(ms, convo_oid, after, user_id) ==
    LET wanted(m) == m.conversation_id = convo_oid /\ AfterFilter(after, m.created_at)
        rows == ByCreatedAt(SelectSeq(ms, wanted))
    IN  [i \in 1..Len(rows) |->
            [sender_id |-> rows[i].sender_id, text |-> _decrypt_text(rows[i].ciphertext),
             created_at |-> rows[i].created_at, is_me |-> rows[i].sender_id = user_id]]

-----------------------------------------------------------------------------
(* Conversation directory *)

\* faulty variant: the admin ids are not joined with the user's own id
AdminParticipants_without_user(user_id, admin_ids) == SortedSet(admin_ids)

\* participants = sorted(set([str(user_id), *[str(a) for a in admin_ids]]))
\* faulty variant: the admin conversation holds the requester alone
AdminParticipants_user_only(user_id, admin_ids) == <<user_id>>

AdminParticipants(user_id, admin_ids) == SortedSet({user_id} \cup admin_ids)

\* faulty variant: no admin resolved, and the conversation is created all the same
_ensure_admin_conversation_no_empty_check(d, user_id, now) ==
    {[db |-> [d EXCEPT !.users = r.users,
                       !.conversations =
                           Append(@, NewConversation(r.nextId,
                                                     AdminParticipants(user_id, r.admin_ids),
                                                     now)),
                       !.nextId = r.nextId + 1],
      thread |-> r.nextId] : r \in _get_admin_ids(d.users, d.nextId, now)}

\* The possible (database, thread id) pairs; find_one answers with any one of
\* several matching documents.
_ensure_admin_conversation(d, user_id, now) ==
    UNION {
        LET admin_ids == SortedSet(r.admin_ids)
            d1 == [d EXCEPT !.users = r.users, !.nextId = r.nextId]
        IN  IF admin_ids = <<>> THEN {[db |-> d1, thread |-> NoId]}
            ELSE LET participants == AdminParticipants(user_id, Range(admin_ids))
                     exact == FindByParticipants(d1.conversations, participants)
                     existing == IF exact # {} THEN exact
                                 ELSE FindByAllParticipants(d1.conversations, participants)
                 IN  IF existing # {}
                     THEN {[db |-> d1, thread |-> d1.conversations[i]._id] : i \in existing}
                     ELSE {[db |-> [d1 EXCEPT
                                      !.conversations =
                                          Append(@, NewConversation(d1.nextId, participants, now)),
                                      !.nextId = @ + 1],
                            thread |-> d1.nextId]}
        : r \in _get_admin_ids(d.users, d.nextId, now)}

\* GET /messages/start-admin
start_admin_message(d, uid, now) ==
    LET user == get_user_from_request(d.users, uid)
    IN  IF user = NoUser THEN {[db |-> d, resp |-> Redirect("/login", NoId)]}
        ELSE UNION {
                {[db |-> e.db,
                  resp |-> IF e.thread = NoId THEN Redirect("/messages", NoId)
                           ELSE Redirect("/messages/{thread_id}", e.thread)] :
                    e \in _ensure_admin_conversation(
                              [d EXCEPT !.users = r.users, !.nextId = r.nextId],
                              user._id, now)}
             : r \in _get_admin_ids(d.users, d.nextId, now)}

\* faulty variant: the pair is stored in request order
StartParticipants_unsorted(user_id, doctor_id) == <<user_id, doctor_id>>

\* participants = sorted([user_id, str(doctor_oid)])
StartParticipants(user_id, doctor_id) == Sorted(<<user_id, doctor_id>>)

\* faulty variant: the lookup before the insert finds nothing
StartLookup_none(cs, participants) == {}

\* existing = await db.conversations.find_one({"participants": participants})
StartLookup(cs, participants) == FindByParticipants(cs, participants)

\* faulty variant: a restricted requester is not turned away
StartGate_open(user) == FALSE

\* if _is_messaging_restricted(user): redirect to /messages/start-admin
StartGate(user) == _is_messaging_restricted(user)

\* GET /messages/start/{doctor_id}
start_message(d, uid, doctor_id, now) ==
    LET user == get_user_from_request(d.users, uid)
        doctors == {u \in d.users : u._id = doctor_id /\ u.role = sDoctor}
        doctor == CHOOSE u \in doctors : TRUE
        participants == StartParticipants(user._id, doctor_id)
        existing == StartLookup(d.conversations, participants)
    IN  IF user = NoUser THEN {[db |-> d, resp |-> Redirect("/login", NoId)]}
        ELSE IF StartGate(user)
        THEN {[db |-> d, resp |-> Redirect("/messages/start-admin", NoId)]}
        ELSE IF doctor_id = Malformed \/ doctors = {}
        THEN {[db |-> d, resp |-> Redirect("/doctors", NoId)]}
        ELSE IF /\ ~_is_admin_user(user)
                /\ (Truthy(doctor.restricted) \/ doctor.doctor_verification_status # sVerified)
        THEN {[db |-> d, resp |-> Redirect("/messages/start-admin", NoId)]}
        ELSE IF existing # {}
        THEN {[db |-> d, resp |-> Redirect("/messages/{thread_id}", d.conversations[i]._id)] :
                 i \in existing}
        ELSE {[db |-> [d EXCEPT
                         !.conversations =
                             Append(@, NewConversation(d.nextId, participants, now)),
                         !.nextId = @ + 1],
               resp |-> Redirect("/messages/{thread_id}", d.nextId)]}

-----------------------------------------------------------------------------
(* Messaging handlers *)

\* the text, stripped: message = (text or "").strip()
\* faulty variant: the text is not stripped
MessageText_unstripped(text) == PyStr(PyOr(text, sEmpty))

\* message = (text or "").strip()
MessageText(text) == Strip(PyStr(PyOr(text, sEmpty)))

\* faulty variant: the conversation's updated_at is not moved
StoreMessage_no_touch(d, convo_oid, user_id, message, now) ==
    [d EXCEPT
        !.messages = Append(@, [conversation_id |-> convo_oid, sender_id |-> user_id,
                                ciphertext |-> _encrypt_text(message),
                                created_at |-> now])]

\* db.messages.insert_one(...) and db.conversations.update_one({"_id": convo_oid},
\* {"$set": {"updated_at": now}}), both with the one now
StoreMessage(d, convo_oid, user_id, message, now) ==
    [d EXCEPT
        !.messages = Append(@, [conversation_id |-> convo_oid, sender_id |-> user_id,
                                ciphertext |-> _encrypt_text(message),
                                created_at |-> now]),
        !.conversations = SetUpdatedAt(@, convo_oid, now)]

\* faulty variant: the access check is skipped
AccessGate_open(d, user, convo, now) ==
    {[db |-> d, denied |-> FALSE]}

\* if _is_messaging_restricted(user): if not (await
\* _restricted_can_access_conversation(db, user, convo)): deny
AccessGate(d, user, convo, now) ==
    IF ~_is_messaging_restricted(user) THEN {[db |-> d, denied |-> FALSE]}
    ELSE {[db |-> [d EXCEPT !.users = r.users, !.nextId = r.nextId], denied |-> ~r.ok] :
            r \in _restricted_can_access_conversation(d.users, d.nextId, now, user, convo)}

\* faulty variant: no requester is taken for a doctor
IsDoctorRole_none(user) == FALSE

\* role = str(user.get("role") or "").strip().lower(); role == "doctor"
IsDoctorRole(user) == NormField(user.role) = sDoctor

\* POST /api/messages/{thread_id}/send
api_send_message(d, uid, thread_id, text, now) ==
    LET user == get_user_from_request(d.users, uid)
        message == MessageText(text)
        found == FindConversation(d.conversations, thread_id, user._id)
    IN  IF user = NoUser THEN {[db |-> d, resp |-> Resp(401, "", NoId, "Unauthorized", <<>>)]}
        ELSE IF ~Truthy(message)
        THEN {[db |-> d, resp |-> Resp(400, "", NoId, "Empty message", <<>>)]}
        ELSE IF thread_id \in {Malformed, StartAdminPath}
        THEN {[db |-> d, resp |-> Resp(400, "", NoId, "Invalid conversation", <<>>)]}
        ELSE IF found = {} THEN {[db |-> d, resp |-> Resp(403, "", NoId, "Forbidden", <<>>)]}
        ELSE UNION {
            {IF g.denied
             THEN [db |-> g.db,
                   resp |-> Resp(403, "", NoId,
                                 IF IsDoctorRole(user) THEN _restricted_access_error
                                 ELSE "Forbidden", <<>>)]
             ELSE [db |-> StoreMessage(g.db, thread_id, user._id, message, now),
                   resp |-> Resp(200, "", thread_id, "",
                                 <<[sender_id |-> user._id, text |-> message,
                                    created_at |-> now, is_me |-> TRUE]>>)] :
                g \in AccessGate(d, user, d.conversations[i], now)}
            : i \in found}

\* GET /api/messages/{thread_id}/since
api_messages_since(d, uid, thread_id, after, now) ==
    LET user == get_user_from_request(d.users, uid)
        found == FindConversation(d.conversations, thread_id, user._id)
    IN  IF user = NoUser THEN {[db |-> d, resp |-> Resp(401, "", NoId, "", <<>>)]}
        ELSE IF thread_id \in {Malformed, StartAdminPath}
        THEN {[db |-> d, resp |-> Resp(400, "", NoId, "", <<>>)]}
        ELSE IF found = {} THEN {[db |-> d, resp |-> Resp(403, "", NoId, "", <<>>)]}
        ELSE UNION {
            {IF g.denied
             THEN [db |-> g.db,
                   resp |-> Resp(403, "", NoId,
                                 IF IsDoctorRole(user) THEN _restricted_access_error ELSE "",
                                 <<>>)]
             ELSE [db |-> g.db,
                   resp |-> Resp(200, "", thread_id, "",
                                 MessageView(g.db.messages, thread_id, after, user._id))] :
                g \in AccessGate(d, user, d.conversations[i], now)}
            : i \in found}

\* POST /api/messages/{thread_id}/read
api_mark_read(d, uid, thread_id, now) ==
    LET user == get_user_from_request(d.users, uid)
        found == FindConversation(d.conversations, thread_id, user._id)
    IN  IF user = NoUser THEN {[db |-> d, resp |-> Resp(401, "", NoId, "", <<>>)]}
        ELSE IF thread_id \in {Malformed, StartAdminPath}
        THEN {[db |-> d, resp |-> Resp(400, "", NoId, "", <<>>)]}
        ELSE IF found = {} THEN {[db |-> d, resp |-> Resp(403, "", NoId, "", <<>>)]}
        ELSE UNION {
            {IF g.denied
             THEN [db |-> g.db,
                   resp |-> Resp(403, "", NoId,
                                 IF IsDoctorRole(user) THEN _restricted_access_error ELSE "",
                                 <<>>)]
             ELSE [db |-> [g.db EXCEPT !.conversations =
                                           SetReadMark(@, thread_id, user._id, now)],
                   resp |-> Resp(200, "", thread_id, "", <<>>)] :
                g \in AccessGate(d, user, d.conversations[i], now)}
            : i \in found}

\* what a denied request of a page handler answers: the 403 page for a doctor, else a
\* redirect to the admin thread
PageDenied(d, user, now) ==
    IF IsDoctorRole(user)
    THEN {[db |-> d, resp |-> Resp(403, "", NoId, _restricted_access_error, <<>>)]}
    ELSE {[db |-> e.db,
           resp |-> IF e.thread # NoId THEN Redirect("/messages/{thread_id}", e.thread)
                    ELSE Redirect("/messages", NoId)] :
             e \in _ensure_admin_conversation(d, user._id, now)}

\* POST /messages/{thread_id}/send
send_message(d, uid, thread_id, text, now) ==
    LET user == get_user_from_request(d.users, uid)
        message == MessageText(text)
        found == FindConversation(d.conversations, thread_id, user._id)
    IN  IF user = NoUser THEN {[db |-> d, resp |-> Redirect("/login", NoId)]}
        ELSE IF ~Truthy(message)
        THEN {[db |-> d, resp |-> Redirect("/messages/{thread_id}", thread_id)]}
        ELSE IF thread_id \in {Malformed, StartAdminPath} \/ found = {}
        THEN {[db |-> d, resp |-> Redirect("/messages", NoId)]}
        ELSE UNION {
            UNION {
                IF g.denied THEN PageDenied(g.db, user, now)
                ELSE {[db |-> StoreMessage(g.db, thread_id, user._id, message, now),
                       resp |-> Redirect("/messages/{thread_id}", thread_id)]}
                : g \in AccessGate(d, user, d.conversations[i], now)}
            : i \in found}

\* GET /messages/{thread_id}: the read mark, the admin-roster reconciliation of the
\* thread list, and the decrypted messages
message_thread(d, uid, thread_id, now) ==
    LET user == get_user_from_request(d.users, uid)
        found == FindConversation(d.conversations, thread_id, user._id)
    IN  IF user = NoUser THEN {[db |-> d, resp |-> Redirect("/login", NoId)]}
        ELSE IF thread_id = StartAdminPath THEN start_admin_message(d, uid, now)
        ELSE IF thread_id = Malformed \/ found = {}
        THEN {[db |-> d, resp |-> Redirect("/messages", NoId)]}
        ELSE UNION {
            UNION {
                IF g.denied THEN PageDenied(g.db, user, now)
                ELSE {[db |-> [g.db EXCEPT
                                 !.conversations = SetReadMark(@, thread_id, user._id, now),
                                 !.users = r.users, !.nextId = r.nextId],
                       resp |-> Resp(200, "", thread_id, "",
                                     MessageView(g.db.messages, thread_id, NoAfter, user._id))] :
                        r \in _get_admin_ids(g.db.users, g.db.nextId, now)}
                : g \in AccessGate(d, user, d.conversations[i], now)}
            : i \in found}

-----------------------------------------------------------------------------
(* Unread counts *)

\* faulty variant: the viewer's own messages are counted too
UnreadQuery_with_own(convo, user_id, m) ==
    /\ m.conversation_id = convo._id
    /\ (user_id \in DOMAIN convo.last_read_at => m.created_at > convo.last_read_at[user_id])

\* the query of _compute_unread_count: conversation_id, sender_id $ne user_id, and
\* created_at $gt the viewer's read mark when there is one
UnreadQuery(convo, user_id, m) ==
    /\ m.conversation_id = convo._id
    /\ m.sender_id # user_id
    /\ (user_id \in DOMAIN convo.last_read_at => m.created_at > convo.last_read_at[user_id])

\* db.messages.count_documents(query)
_compute_unread_count(ms, convo, user_id) ==
    LET matches(m) == UnreadQuery(convo, user_id, m) IN Len(SelectSeq(ms, matches))

\* the loop of api_unread over the viewer's conversations cs, from the (users, nextId,
\* total) so far: a restricted viewer's conversation counts only if the access check
\* passes, and that may reconcile the admin mailboxes
RECURSIVE UnreadLoop(_, _, _, _, _, _)
UnreadLoop(st, ms, user, restricted_mode, cs, now) ==
    IF cs = <<>> THEN {st}
    ELSE LET convo == Head(cs)
             count == _compute_unread_count(ms, convo, user._id)
         IN  IF user._id \notin Range(convo.participants)
             THEN UnreadLoop(st, ms, user, restricted_mode, Tail(cs), now)
             ELSE IF ~restricted_mode
             THEN UnreadLoop([st EXCEPT !.total = @ + count], ms, user,
                             restricted_mode, Tail(cs), now)
             ELSE UNION {
                     UnreadLoop([users |-> a.users, nextId |-> a.nextId,
                                 total |-> st.total + IF a.ok THEN count ELSE 0],
                                ms, user, restricted_mode, Tail(cs), now) :
                         a \in _restricted_can_access_conversation(st.users, st.nextId,
                                                                   now, user, convo)}

\* GET /api/messages/unread
api_unread(d, uid, now) ==
    LET user == get_user_from_request(d.users, uid)
        restricted_mode == _is_messaging_restricted(user)
        answer(db, total) ==
            [db |-> db,
             resp |-> [status |-> 200, location |-> "", thread |-> NoId, error |-> "",
                       messages |-> <<>>, unread |-> total]]
    IN  IF user = NoUser THEN {answer(d, 0)}
        ELSE UNION {
                {answer([d EXCEPT !.users = st.users, !.nextId = st.nextId], st.total) :
                    st \in UnreadLoop([users |-> r.users, nextId |-> r.nextId, total |-> 0],
                                      d.messages, user, restricted_mode,
                                      d.conversations, now)}
             : r \in IF restricted_mode THEN _get_admin_ids(d.users, d.nextId, now)
                     ELSE {[users |-> d.users, nextId |-> d.nextId]}}

-----------------------------------------------------------------------------
(* Doctor documents (src/app/routers/auth.py) *)

\* POST /api/auth/doctor/update-documents: degree and other say which uploads carry
\* a payload; the stored documents themselves play no part in messaging
\* faulty variant: a degree upload leaves the verification status as it is
update_doctor_documents_keeps_status(d, uid, degree, other) ==
    LET user == get_user_from_request(d.users, uid)
    IN  IF user = NoUser \/ user.role # sDoctor
        THEN {[db |-> d, resp |-> Redirect("/login", NoId)]}
        ELSE IF ~(degree \/ other)
        THEN {[db |-> d, resp |-> Redirect("/profile?documents_error=1", NoId)]}
        ELSE {[db |-> d, resp |-> Redirect("/profile?documents_updated=1", NoId)]}

update_doctor_documents(d, uid, degree, other) ==
    LET user == get_user_from_request(d.users, uid)
        requires_reverification == degree /\ user.doctor_verification_status = sVerified
    IN  IF user = NoUser \/ user.role # sDoctor
        THEN {[db |-> d, resp |-> Redirect("/login", NoId)]}
        ELSE IF ~(degree \/ other)
        THEN {[db |-> d, resp |-> Redirect("/profile?documents_error=1", NoId)]}
        ELSE {[db |-> [d EXCEPT !.users =
                          (@ \ {user}) \cup
                          {IF requires_reverification
                           THEN [user EXCEPT !.doctor_verification_status = sPending]
                           ELSE user}],
               resp |-> Redirect(IF requires_reverification
                                 THEN "/profile?documents_updated=1&pending_verification=1&reverify_notice=1"
                                 ELSE "/profile?documents_updated=1", NoId)]}

-----------------------------------------------------------------------------
(* The application: requests handled one at a time *)

\* bound on what a run writes: conversations, messages and read marks stored, and
\* clock ticks
MaxWork == 2

\* the accounts that can sign in: a patient, two verified doctors and an admin
Roster ==
    {UserDoc(1, PyFalse, sUser, <<"p", "@", "x">>, None, None, None, None, 0),
     UserDoc(2, PyFalse, sDoctor, <<"d", "@", "x">>, sVerified, None, None, None, 0),
     UserDoc(3, PyFalse, sDoctor, <<"u", "@", "x">>, sVerified, None, None, None, 0),
     UserDoc(4, PyTrue, sUser, <<"a", "@", "x">>, None, None, None, None, 0)}

RosterIds == {u._id : u \in Roster}

\* a request carries the session of a stored account, or none
Requesters == {u._id : u \in {x \in users : x._id \in RosterIds}} \cup {NoSession}

\* form texts: whitespace only, and a text with surrounding whitespace
Texts == {<<" ">>, <<" ", "h", "i", " ">>}

ThreadIds == {conversations[i]._id : i \in 1..Len(conversations)} \cup {nextId, Malformed}

DoctorIds == {u._id : u \in users} \cup {nextId, Malformed}

DB == Db(users, conversations, messages, nextId)

\* read marks written during the run; what was stored before it carries time 0
RECURSIVE ReadMarks(_)
ReadMarks(cs) ==
    IF cs = <<>> THEN 0
    ELSE Cardinality({k \in DOMAIN Head(cs).last_read_at : Head(cs).last_read_at[k] >= 1})
             + ReadMarks(Tail(cs))

\* documents written during the run, and clock ticks
Work(d, now) ==
    Cardinality({i \in 1..Len(d.conversations) : d.conversations[i].created_at >= 1})
        + Cardinality({i \in 1..Len(d.messages) : d.messages[i].created_at >= 1})
        + ReadMarks(d.conversations) + (now - 1)

InitDb(accounts) ==
    /\ users = accounts
    /\ conversations = <<>>
    /\ messages = <<>>
    /\ nextId = Cardinality(Roster) + 1
    /\ clock = 1
    /\ settings = Settings(admin_emails)
    /\ last = NoRequest
    /\ pUser = NoUser
    /\ pConvo = <<>>
    /\ pOut = NotEvaluated
    /\ reqs = <<>>
    /\ pending_users = {}

\* the handler's outcome o becomes the state; of the response the status, the
\* redirect target and the error text are kept
Commit(o) ==
    /\ Work(o.db, clock) <= MaxWork
    /\ users' = o.db.users
    /\ conversations' = o.db.conversations
    /\ messages' = o.db.messages
    /\ nextId' = o.db.nextId
    /\ last' = [status |-> o.resp.status, location |-> o.resp.location,
                error |-> o.resp.error]
    /\ UNCHANGED <<clock, settings, pUser, pConvo, pOut, reqs, pending_users>>

Tick ==
    /\ Work(DB, clock + 1) <= MaxWork
    /\ clock' = clock + 1
    /\ UNCHANGED <<users, conversations, messages, nextId, last, settings, pUser, pConvo, pOut, reqs, pending_users>>

StartMessage ==
    \E uid \in Requesters, doctor_id \in DoctorIds :
        \E o \in start_message(DB, uid, doctor_id, clock) :
            Commit(o)

StartAdminMessage ==
    \E uid \in Requesters :
        \E o \in start_admin_message(DB, uid, clock) :
            Commit(o)

MessageThread ==
    \E uid \in Requesters, thread_id \in ThreadIds \cup {StartAdminPath} :
        \E o \in message_thread(DB, uid, thread_id, clock) :
            Commit(o)

ApiSendMessage ==
    \E uid \in Requesters, thread_id \in ThreadIds, text \in Texts :
        \E o \in api_send_message(DB, uid, thread_id, text, clock) :
            Commit(o)

SendMessage ==
    \E uid \in Requesters, thread_id \in ThreadIds, text \in Texts :
        \E o \in send_message(DB, uid, thread_id, text, clock) :
            Commit(o)

ApiMessagesSince ==
    \E uid \in Requesters, thread_id \in ThreadIds, after \in AfterValues(clock) :
        \E o \in api_messages_since(DB, uid, thread_id, after, clock) :
            Commit(o)

ApiMarkRead ==
    \E uid \in Requesters, thread_id \in ThreadIds :
        \E o \in api_mark_read(DB, uid, thread_id, clock) :
            Commit(o)

UpdateDoctorDocuments ==
    \E uid \in Requesters, degree \in BOOLEAN, other \in BOOLEAN :
        \E o \in update_doctor_documents(DB, uid, degree, other) :
            Commit(o)

\* The conversation directory alone: who starts a conversation with whom.
NextDirectory ==
    \/ Tick
    \/ StartMessage
    \/ StartAdminMessage
    \/ UpdateDoctorDocuments

InitDirectory == InitDb(Roster)

SpecDirectory == InitDirectory /\ [][NextDirectory]_vars

\* The directory and the messaging on the conversations it hands out, for the
\* patient, one doctor and the admin.
Init == InitDb({u \in Roster : u._id # 3})

Next ==
    \/ Tick
    \/ StartMessage
    \/ StartAdminMessage
    \/ UpdateDoctorDocuments
    \/ MessageThread
    \/ ApiSendMessage
    \/ SendMessage
    \/ ApiMessagesSince
    \/ ApiMarkRead

Spec == Init /\ [][Next]_vars

-----------------------------------------------------------------------------
(* Restricted doctors and the messaging handlers *)

\* uid is a restricted doctor, thread_id a conversation of theirs with a participant
\* that the admin ids resolved now do not hold
RestrictedDoctorCase(uid, thread_id) ==
    LET user == get_user_from_request(users, uid)
    IN  /\ user # NoUser
        /\ _is_messaging_restricted(user)
        /\ IsDoctorRole(user)
        /\ \E i \in FindConversation(conversations, thread_id, user._id) :
              \E r \in _get_admin_ids(users, nextId, clock) :
                 ~AllIn(Others(conversations[i].participants, user._id), r.admin_ids)

\* the outcome o is a refusal that stored no message, wrote no read mark, moved no
\* updated_at and carries no message bodies
RefusedUntouched(o) ==
    /\ o.resp.status = 403
    /\ o.resp.messages = <<>>
    /\ o.db.messages = messages
    /\ o.db.conversations = conversations

\* a blank form text never reaches the access check: nothing is stored either
BlankUntouched(o) ==
    /\ o.resp.status # 200
    /\ o.resp.messages = <<>>
    /\ o.db.messages = messages
    /\ o.db.conversations = conversations

\* C1: for each of the five messaging operations (thread page, API send, form send,
\* poll, mark read), a request by a restricted doctor on a conversation that has
\* another participant outside the admin identity set is refused, and it stores no
\* message, writes no last_read_at entry, changes no updated_at and returns no
\* message bodies.
C1_RestrictedDoctorRefused ==
    \A uid \in Requesters, thread_id \in ThreadIds :
        RestrictedDoctorCase(uid, thread_id) =>
            /\ \A o \in message_thread(DB, uid, thread_id, clock) : RefusedUntouched(o)
            /\ \A o \in api_mark_read(DB, uid, thread_id, clock) : RefusedUntouched(o)
            /\ \A after \in AfterValues(clock) :
                  \A o \in api_messages_since(DB, uid, thread_id, after, clock) :
                     RefusedUntouched(o)
            /\ \A text \in Texts :
                  /\ \A o \in api_send_message(DB, uid, thread_id, text, clock) :
                        IF Truthy(MessageText(text)) THEN RefusedUntouched(o)
                        ELSE BlankUntouched(o)
                  /\ \A o \in send_message(DB, uid, thread_id, text, clock) :
                        IF Truthy(MessageText(text)) THEN RefusedUntouched(o)
                        ELSE BlankUntouched(o)

\* doctor 2, set back to pending after a conversation with the patient was opened,
\* has just been refused with the wait-for-verification answer
C1_Witness ==
    /\ last.status = 403
    /\ last.error = _restricted_access_error
    /\ \E i \in 1..Len(conversations) :
          /\ conversations[i].participants = <<1, 2>>
          /\ RestrictedDoctorCase(2, conversations[i]._id)
    /\ messages = <<>>

-----------------------------------------------------------------------------
(* The conversation directory *)

\* the response names a conversation
Started(o) == o.resp.location = "/messages/{thread_id}"

StoredIds == {u._id : u \in users}

\* the stored conversations whose participants are exactly ps
ConversationsOf(ps) == {i \in 1..Len(conversations) : conversations[i].participants = ps}

\* C5: for two distinct users a and b, start_message by a toward b and start_message
\* by b toward a, where both succeed, answer with the same conversation id:
\* from the same state, and when one request follows the other, in either order.
C5_SameConversationBothWays ==
    \A a \in StoredIds, b \in StoredIds :
        a # b =>
            \A o1 \in start_message(DB, a, b, clock) :
                Started(o1) =>
                    /\ \A o2 \in start_message(DB, b, a, clock) :
                          Started(o2) => o2.resp.thread = o1.resp.thread
                    /\ \A o2 \in start_message(o1.db, b, a, clock) :
                          Started(o2) => o2.resp.thread = o1.resp.thread

\* doctors 2 and 3 have a conversation, and each one's request toward the other is
\* answered with it
C5_Witness ==
    /\ last.location = "/messages/{thread_id}"
    /\ \E i \in ConversationsOf(<<2, 3>>) :
          LET answer == {[db |-> DB,
                          resp |-> Redirect("/messages/{thread_id}", conversations[i]._id)]}
          IN  /\ start_message(DB, 2, 3, clock) = answer
              /\ start_message(DB, 3, 2, clock) = answer

\* C6: with requests handled one after another, no two stored conversations have
\* the same participants, and a second start_message for the same pair answers with
\* the id the first one answered with and inserts no conversation.
C6_OneConversationPerPair ==
    /\ \A i, j \in 1..Len(conversations) :
          Range(conversations[i].participants) = Range(conversations[j].participants)
              => i = j
    /\ \A uid \in Requesters, doctor_id \in DoctorIds :
          \A o1 \in start_message(DB, uid, doctor_id, clock) :
              Started(o1) =>
                  \A o2 \in start_message(o1.db, uid, doctor_id, clock) :
                      /\ o2.resp.thread = o1.resp.thread
                      /\ o2.db = o1.db

\* the patient's conversation with doctor 2 is stored once, and the patient's next
\* request for it is answered with that conversation and stores nothing
C6_Witness ==
    /\ last.location = "/messages/{thread_id}"
    /\ Cardinality(ConversationsOf(<<1, 2>>)) = 1
    /\ \E i \in ConversationsOf(<<1, 2>>) :
          start_message(DB, 1, 2, clock) =
              {[db |-> DB, resp |-> Redirect("/messages/{thread_id}", conversations[i]._id)]}

StrictlySorted(ps) == \A i \in 1..(Len(ps) - 1) : ps[i] < ps[i + 1]

\* C8 as stated: the participants of every stored conversation are sorted without a
\* repeated id, and a conversation that start_message creates has exactly two
\* distinct participants, also when the requester names their own id.
C8_AsStated ==
    /\ \A i \in 1..Len(conversations) : StrictlySorted(conversations[i].participants)
    /\ \A uid \in Requesters, doctor_id \in DoctorIds :
          \A o \in start_message(DB, uid, doctor_id, clock) :
              Len(o.db.conversations) > Len(conversations) =>
                  LET ps == o.db.conversations[Len(o.db.conversations)].participants
                  IN  Len(ps) = 2 /\ Cardinality(Range(ps)) = 2

\* C9: start_message by a restricted user, toward any target id, answers with
\* the redirect to /messages/start-admin, names no conversation and leaves the
\* stored conversations as they were.
C9_RestrictedStartRedirected ==
    \A uid \in Requesters, doctor_id \in DoctorIds :
        LET user == get_user_from_request(users, uid)
        IN  (user # NoUser /\ _is_messaging_restricted(user)) =>
                start_message(DB, uid, doctor_id, clock) =
                    {[db |-> DB, resp |-> Redirect("/messages/start-admin", NoId)]}

\* doctor 2, pending after a degree upload, is redirected to the admin thread when
\* asking for doctor 3, who is verified; no conversation of the two exists
C9_Witness ==
    /\ last.location = "/messages/start-admin"
    /\ _is_messaging_restricted(FindUser(users, 2))
    /\ ~_is_messaging_restricted(FindUser(users, 3))
    /\ ConversationsOf(<<2, 3>>) = {}
    /\ start_message(DB, 2, 3, clock) =
           {[db |-> DB, resp |-> Redirect("/messages/start-admin", NoId)]}

\* C10: when _ensure_admin_conversation(user_id) answers with a conversation id,
\* created or found, the stored participants of that conversation are the sorted,
\* duplicate-free ids of the user and of the admins resolved during the call.
C10_AdminConversationParticipants ==
    \A uid \in StoredIds :
        \A e \in _ensure_admin_conversation(DB, uid, clock) :
            e.thread # NoId =>
                \E r \in _get_admin_ids(users, nextId, clock) :
                    /\ r.users = e.db.users
                    /\ \E i \in 1..Len(e.db.conversations) :
                          e.db.conversations[i]._id = e.thread
                    /\ \A i \in 1..Len(e.db.conversations) :
                          e.db.conversations[i]._id = e.thread =>
                              e.db.conversations[i].participants =
                                  SortedSet({uid} \cup r.admin_ids)

\* the patient's admin conversation, with the flagged admin and the mailbox of the
\* configured admin email, is stored and is what the next call answers with
C10_Witness ==
    /\ last.location = "/messages/{thread_id}"
    /\ \E i \in ConversationsOf(<<1, 4, 5>>) :
          _ensure_admin_conversation(DB, 1, clock) =
              {[db |-> DB, thread |-> conversations[i]._id]}

-----------------------------------------------------------------------------
(* Concurrent initiations: every await of start_message and of
   _ensure_admin_conversation is a point where another request may run *)

\* a request in flight: the handler, its arguments, the await it stands at, and the
\* locals participants and thread
Request(handler, user_id, doctor_id) ==
    [handler |-> handler, user_id |-> user_id, doctor_id |-> doctor_id,
     pc |-> "begin", participants |-> <<>>, thread |-> NoId]

\* two requests: start_message by an account toward a doctor, or
\* _ensure_admin_conversation (through GET /messages/start-admin) for an account
RaceRequests ==
    {Request("start_message", uid, doctor_id) : uid \in RosterIds, doctor_id \in {2, 3}}
        \cup {Request("_ensure_admin_conversation", uid, NoId) : uid \in RosterIds}

InitRace ==
    /\ users = Roster
    /\ conversations = <<>>
    /\ messages = <<>>
    /\ nextId = Cardinality(Roster) + 1
    /\ clock = 1
    /\ settings = Settings(admin_emails)
    /\ last = NoRequest
    /\ pUser = NoUser
    /\ pConvo = <<>>
    /\ pOut = NotEvaluated
    /\ reqs \in {<<r1, r2>> : r1 \in RaceRequests, r2 \in RaceRequests}
    /\ pending_users = {}

Done(r, thread) == [r EXCEPT !.pc = "done", !.thread = thread]

\* start_message up to its conversation lookup: the session, the gate, the doctor
\* lookup; _ensure_admin_conversation up to its lookup: the admin ids
RaceBegin ==
    \E k \in 1..Len(reqs) :
        LET r == reqs[k] IN
        /\ r.pc = "begin"
        /\ IF r.handler = "start_message"
           THEN LET user == get_user_from_request(users, r.user_id)
                    doctors == {u \in users : u._id = r.doctor_id /\ u.role = sDoctor}
                    doctor == CHOOSE u \in doctors : TRUE
                    turned_away ==
                        \/ user = NoUser
                        \/ StartGate(user)
                        \/ doctors = {}
                        \/ /\ ~_is_admin_user(user)
                           /\ \/ Truthy(doctor.restricted)
                              \/ doctor.doctor_verification_status # sVerified
                IN  /\ reqs' = [reqs EXCEPT ![k] =
                                  IF turned_away THEN Done(r, NoId)
                                  ELSE [r EXCEPT !.pc = "find",
                                                 !.participants =
                                                     StartParticipants(user._id, r.doctor_id)]]
                    /\ UNCHANGED <<users, nextId>>
           ELSE \E a \in _get_admin_ids(users, nextId, clock) :
                    /\ users' = a.users
                    /\ nextId' = a.nextId
                    /\ reqs' = [reqs EXCEPT ![k] =
                                  IF a.admin_ids = {} THEN Done(r, NoId)
                                  ELSE [r EXCEPT !.pc = "find",
                                                 !.participants =
                                                     AdminParticipants(r.user_id, a.admin_ids)]]
        /\ UNCHANGED <<conversations, messages, clock, last, settings, pUser, pConvo, pOut, pending_users>>

\* existing = await db.conversations.find_one({"participants": participants})
RaceFind ==
    \E k \in 1..Len(reqs) :
        LET r == reqs[k]
            existing == IF r.handler = "start_message"
                        THEN StartLookup(conversations, r.participants)
                        ELSE FindByParticipants(conversations, r.participants)
        IN  /\ r.pc = "find"
            /\ \/ \E i \in existing :
                     reqs' = [reqs EXCEPT ![k] = Done(r, conversations[i]._id)]
               \/ /\ existing = {}
                  /\ reqs' = [reqs EXCEPT ![k].pc =
                                 IF r.handler = "start_message" THEN "insert"
                                 ELSE "find_all"]
            /\ UNCHANGED <<users, conversations, messages, nextId, clock, last,
                           settings, pUser, pConvo, pOut, pending_users>>

\* the second lookup of _ensure_admin_conversation, by $all and $size
RaceFindAll ==
    \E k \in 1..Len(reqs) :
        LET r == reqs[k]
            existing == FindByAllParticipants(conversations, r.participants)
        IN  /\ r.pc = "find_all"
            /\ \/ \E i \in existing :
                     reqs' = [reqs EXCEPT ![k] = Done(r, conversations[i]._id)]
               \/ /\ existing = {}
                  /\ reqs' = [reqs EXCEPT ![k].pc = "insert"]
            /\ UNCHANGED <<users, conversations, messages, nextId, clock, last,
                           settings, pUser, pConvo, pOut, pending_users>>

\* result = await db.conversations.insert_one({...})
RaceInsert ==
    \E k \in 1..Len(reqs) :
        LET r == reqs[k] IN
        /\ r.pc = "insert"
        /\ conversations' = Append(conversations,
                                   NewConversation(nextId, r.participants, clock))
        /\ nextId' = nextId + 1
        /\ reqs' = [reqs EXCEPT ![k] = Done(r, nextId)]
        /\ UNCHANGED <<users, messages, clock, last, settings, pUser, pConvo, pOut, pending_users>>

NextRace ==
    \/ RaceBegin
    \/ RaceFind
    \/ RaceFindAll
    \/ RaceInsert

SpecRace == InitRace /\ [][NextRace]_vars

\* C7 as stated: once every one of the concurrent initiation requests has completed,
\* whatever the interleaving of their lookups and inserts, at most one conversation
\* with any one participant sequence is stored.
C7_AsStated ==
    (\A k \in 1..Len(reqs) : reqs[k].pc = "done") =>
        \A i, j \in 1..Len(conversations) :
            conversations[i].participants = conversations[j].participants => i = j

-----------------------------------------------------------------------------
(* The admin conversation over configurations and stores *)

\* the orderings of a set of ids
Orderings(S) ==
    {s \in [1..Cardinality(S) -> S] : \A i, j \in 1..Cardinality(S) : s[i] = s[j] => i = j}

\* the mailbox record the reconciliation of the configured admin email leaves
Mailbox == UserDoc(5, PyTrue, sUser, <<"m", "@", "x">>, None, None, None, None, 0)

\* the id of a conversation stored before the run
SeededThread == 6

\* Without or with configured admin emails; the patient and doctor 2, with or
\* without the flagged admin, and with or without the mailbox where an email is
\* configured; no conversation, or the admin conversation of the patient or of the
\* doctor as stored earlier, its ids in any order.
InitAdminThread ==
    /\ settings \in {Settings(<<>>), Settings(admin_emails)}
    /\ users \in {{u \in Roster : u._id \in {1, 2}} \cup A :
                     A \in SUBSET ({u \in Roster : u._id = 4}
                                      \cup IF settings.admin_emails = <<>> THEN {}
                                           ELSE {Mailbox})}
    /\ conversations \in
          {<<>>} \cup
          {<<NewConversation(SeededThread, ps, 0)>> :
               ps \in UNION {Orderings({uid} \cup AdminIdsOf(users)) : uid \in {1, 2}}}
    /\ (conversations # <<>> => AdminIdsOf(users) # {})
    /\ messages = <<>>
    /\ nextId = SeededThread + 1
    /\ clock = 1
    /\ last = NoRequest
    /\ pUser = NoUser
    /\ pConvo = <<>>
    /\ pOut = NotEvaluated
    /\ reqs = <<>>
    /\ pending_users = {}

NextAdminThread ==
    \/ Tick
    \/ StartAdminMessage

SpecAdminThread == InitAdminThread /\ [][NextAdminThread]_vars

\* the stored conversations holding exactly the ids S, in any order
ConversationsOfSet(S) ==
    {i \in 1..Len(conversations) :
        /\ Range(conversations[i].participants) = S
        /\ Len(conversations[i].participants) = Cardinality(S)}

\* C11: a call of _ensure_admin_conversation that names a conversation stores at most
\* one; a call for the same user that follows it, the admin ids being the same,
\* names the same conversation and stores nothing; and a stored conversation holding
\* the ids of the user and the admins in any order is answered instead of a new one.
C11_AdminConversationReused ==
    \A uid \in StoredIds :
        \A e1 \in _ensure_admin_conversation(DB, uid, clock) :
            e1.thread # NoId =>
                /\ Len(e1.db.conversations) <= Len(conversations) + 1
                /\ \A e2 \in _ensure_admin_conversation(e1.db, uid, clock) :
                      e2.thread = e1.thread /\ e2.db = e1.db
                /\ LET stored == ConversationsOfSet({uid} \cup AdminIdsOf(e1.db.users))
                   IN  stored # {} =>
                           /\ e1.db.conversations = conversations
                           /\ \E i \in stored : conversations[i]._id = e1.thread

\* the patient's admin conversation, stored earlier with its ids in descending order,
\* has been answered and is still the only conversation
C11_Witness ==
    /\ last.location = "/messages/{thread_id}"
    /\ Len(conversations) = 1
    /\ conversations[1].participants = <<5, 4, 1>>
    /\ _ensure_admin_conversation(DB, 1, clock) = {[db |-> DB, thread |-> SeededThread]}

\* C12: when no admin id is resolved, _ensure_admin_conversation answers None and
\* stores no conversation, and start_admin_message answers with the redirect to
\* /messages.
C12_NoAdminNoConversation ==
    \A uid \in StoredIds :
        \A r \in _get_admin_ids(users, nextId, clock) :
            r.admin_ids = {} =>
                /\ \A e \in _ensure_admin_conversation(DB, uid, clock) :
                      e.thread = NoId /\ e.db.conversations = conversations
                /\ \A o \in start_admin_message(DB, uid, clock) :
                      /\ o.resp = Redirect("/messages", NoId)
                      /\ o.db.conversations = conversations

\* no admin email is configured and no stored user is an admin: a start-admin
\* request has been redirected to /messages and no conversation is stored
C12_Witness ==
    /\ settings.admin_emails = <<>>
    /\ \A r \in _get_admin_ids(users, nextId, clock) : r.admin_ids = {}
    /\ last = [status |-> 303, location |-> "/messages", error |-> ""]
    /\ conversations = <<>>

-----------------------------------------------------------------------------
(* Admin mailbox reconciliation *)

\* C13: for a configured admin email that no stored record matches, a call of
\* _get_admin_users adds exactly one user, with that normalised email and is_admin
\* set; and the call that follows any call adds no user, changes none and returns
\* the same admins.
C13_ReconcileIdempotent ==
    \A r1 \in _get_admin_users(users, nextId, clock) :
        /\ \A e \in _admin_emails :
              (Truthy(e) /\ NormalizedEmailMatch(users, e) = {}) =>
                  \E m \in r1.users \ users :
                      /\ m.email = e
                      /\ m.is_admin = PyTrue
                      /\ NormalizedEmailMatch(r1.users, e) = {m}
                      /\ m \in r1.admins
        /\ Cardinality(r1.users) <= Cardinality(users) + Cardinality(_admin_emails)
        /\ \A r2 \in _get_admin_users(r1.users, r1.nextId, clock) :
              /\ r2.users = r1.users
              /\ r2.nextId = r1.nextId
              /\ r2.admins = r1.admins

\* the mailbox of the configured email was created by a start-admin request, it is
\* the only record of that email, and a further call leaves the users as they are
C13_Witness ==
    /\ last.status = 303
    /\ \E m \in users :
          /\ m._id = SeededThread + 1
          /\ m.email = <<"m", "@", "x">>
          /\ m.is_admin = PyTrue
          /\ NormalizedEmailMatch(users, <<"m", "@", "x">>) = {m}
    /\ \A r \in _get_admin_users(users, nextId, clock) : r.users = users /\ r.nextId = nextId

-----------------------------------------------------------------------------
(* Concurrent reconciliations: every await of the mailbox loop of _get_admin_users
   is a point where another invocation may run. update_one(..., upsert=True) is
   a query followed by a write on the server; the source declares no unique index
   on users.email, so the server does not serialise two upserts of one email. *)

\* the configured email, normalised
MailboxEmail == <<"m", "@", "x">>

\* an invocation: the await it stands at, and the locals keep_id and delete_ids,
\* and the document the query of the upsert matched
Invocation == [pc |-> "query", keep_id |-> NoId, delete_ids |-> {}, matched |-> NoId]

\* records of the configured email as they may be stored: a padded upper-case
\* spelling, and a younger record of the normalised spelling
MailboxRecords ==
    {UserDoc(6, None, sUser, <<"M", "@", "X", " ">>, None, None, None, None, 0),
     UserDoc(7, PyFalse, sUser, MailboxEmail, None, None, None, None, 1)}

InitMailboxRace ==
    /\ settings = Settings(admin_emails)
    /\ users \in {{u \in Roster : u._id \in A} \cup M :
                     A \in {{1}, {1, 4}}, M \in SUBSET MailboxRecords}
    /\ conversations = <<>>
    /\ messages = <<>>
    /\ nextId = 8
    /\ clock = 2
    /\ last = NoRequest
    /\ pUser = NoUser
    /\ pConvo = <<>>
    /\ pOut = NotEvaluated
    /\ reqs = <<Invocation, Invocation>>
    /\ pending_users = {}

Step(k, r) ==
    /\ reqs' = [reqs EXCEPT ![k] = r]
    /\ UNCHANGED <<conversations, messages, clock, last, settings, pUser, pConvo, pOut, pending_users>>

\* {"$set": {"is_admin": True, "email": email_clean}} on the record id, if stored
SetMailboxFields(us, id) ==
    {IF u._id = id THEN [u EXCEPT !.is_admin = PyTrue, !.email = MailboxEmail] ELSE u :
        u \in us}

\* users = await db.users.find(query).to_list(length=50), before and after the loop
MailboxQuery ==
    \E k \in 1..Len(reqs) :
        /\ reqs[k].pc \in {"query", "requery"}
        /\ Step(k, [reqs[k] EXCEPT !.pc = IF @ = "query" THEN "dupes" ELSE "done"])
        /\ UNCHANGED <<users, nextId>>

\* dupes = await db.users.find(normalized_email_expr).sort("created_at", 1)...
MailboxDupes ==
    \E k \in 1..Len(reqs) :
        LET dupes == NormalizedEmailMatch(users, MailboxEmail)
            oldest == {d \in dupes : \A o \in dupes : d.created_at <= o.created_at}
        IN  /\ reqs[k].pc = "dupes"
            /\ \/ \E keep \in oldest :
                     Step(k, [reqs[k] EXCEPT
                                 !.pc = "update_keeper",
                                 !.keep_id = keep._id,
                                 !.delete_ids = {d._id : d \in dupes} \ {keep._id}])
               \/ /\ dupes = {}
                  /\ Step(k, [reqs[k] EXCEPT !.pc = "upsert"])
            /\ UNCHANGED <<users, nextId>>

\* await db.users.update_one({"_id": keep_id}, {"$set": {...}})
MailboxUpdateKeeper ==
    \E k \in 1..Len(reqs) :
        /\ reqs[k].pc = "update_keeper"
        /\ users' = SetMailboxFields(users, reqs[k].keep_id)
        /\ Step(k, [reqs[k] EXCEPT !.pc = IF reqs[k].delete_ids # {} THEN "delete"
                                          ELSE "requery"])
        /\ UNCHANGED nextId

\* await db.users.delete_many({"_id": {"$in": delete_ids}})
MailboxDelete ==
    \E k \in 1..Len(reqs) :
        /\ reqs[k].pc = "delete"
        /\ users' = {u \in users : u._id \notin reqs[k].delete_ids}
        /\ Step(k, [reqs[k] EXCEPT !.pc = "requery"])
        /\ UNCHANGED nextId

\* the query of update_one({"email": email_clean}, ..., upsert=True)
MailboxUpsertQuery ==
    \E k \in 1..Len(reqs) :
        LET found == {u \in users : u.email = MailboxEmail}
        IN  /\ reqs[k].pc = "upsert"
            /\ \/ \E u \in found :
                     Step(k, [reqs[k] EXCEPT !.pc = "upsert_write", !.matched = u._id])
               \/ /\ found = {}
                  /\ Step(k, [reqs[k] EXCEPT !.pc = "upsert_write"])
            /\ UNCHANGED <<users, nextId>>

\* the write of the upsert: $set on the matched record, or the insert with
\* $setOnInsert
MailboxUpsertWrite ==
    \E k \in 1..Len(reqs) :
        /\ reqs[k].pc = "upsert_write"
        /\ IF reqs[k].matched # NoId
           THEN /\ users' = SetMailboxFields(users, reqs[k].matched)
                /\ UNCHANGED nextId
           ELSE /\ users' = users \cup {UserDoc(nextId, PyTrue, sUser, MailboxEmail,
                                                None, None, None, None, clock)}
                /\ nextId' = nextId + 1
        /\ Step(k, [reqs[k] EXCEPT !.pc = "requery"])

NextMailboxRace ==
    \/ MailboxQuery
    \/ MailboxDupes
    \/ MailboxUpdateKeeper
    \/ MailboxDelete
    \/ MailboxUpsertQuery
    \/ MailboxUpsertWrite

SpecMailboxRace == InitMailboxRace /\ [][NextMailboxRace]_vars

\* C14 as stated: once all concurrent invocations of _get_admin_users have
\* completed, whatever the interleaving of their steps, exactly one user record has
\* the configured admin email (compared normalised), and it carries the admin flag.
C14_AsStated ==
    (\A k \in 1..Len(reqs) : reqs[k].pc = "done") =>
        /\ Cardinality(NormalizedEmailMatch(users, MailboxEmail)) = 1
        /\ \A u \in NormalizedEmailMatch(users, MailboxEmail) : u.is_admin = PyTrue

-----------------------------------------------------------------------------
(* Messaging on conversations that are already stored *)

ApiUnread ==
    \E uid \in Requesters :
        \E o \in api_unread(DB, uid, clock) :
            Commit(o)

\* the conversation of the patient and the doctor, and the doctor's conversation
\* with the admin, both stored before the run
PairThread == 6

AdminThread == 7

\* a conversation stored before the run, with the read marks it carries
SeededConversation(id, participants, marks) ==
    [NewConversation(id, participants, 0) EXCEPT !.last_read_at = marks]

\* a message stored before the run
SeededMessage(convo_oid, sender_id, text) ==
    [conversation_id |-> convo_oid, sender_id |-> sender_id,
     ciphertext |-> _encrypt_text(text), created_at |-> 0]

\* The patient, the doctor and the admin, none of them restricted, and no admin
\* mailbox configured; the two conversations are stored, the first with or without
\* a read mark of the patient, and each with a message of the doctor.
InitMessaging ==
    /\ settings = Settings(<<>>)
    /\ users = {u \in Roster : u._id # 3}
    /\ \E marks \in {<<>>, 1 :> 0} :
          conversations = <<SeededConversation(PairThread, <<1, 2>>, marks),
                            SeededConversation(AdminThread, <<2, 4>>, <<>>)>>
    /\ messages = <<SeededMessage(PairThread, 2, <<"h", "i">>),
                    SeededMessage(AdminThread, 2, <<"o", "k">>)>>
    /\ nextId = 8
    /\ clock = 1
    /\ last = NoRequest
    /\ pUser = NoUser
    /\ pConvo = <<>>
    /\ pOut = NotEvaluated
    /\ reqs = <<>>
    /\ pending_users = {}

NextMessaging ==
    \/ Tick
    \/ MessageThread
    \/ ApiSendMessage
    \/ SendMessage
    \/ ApiMessagesSince
    \/ ApiMarkRead
    \/ ApiUnread

SpecMessaging == InitMessaging /\ [][NextMessaging]_vars

\* the messages of the conversation convo_oid, by their positions in the collection
MessagesOf(ms, convo_oid) == {i \in 1..Len(ms) : ms[i].conversation_id = convo_oid}

\* C15: _compute_unread_count(conversation, userId) is the number of messages of the
\* conversation that another user sent and, when userId has a read mark there, that
\* were created strictly after the mark; it is never negative, and it is 0 when
\* userId sent every message of the conversation.
C15_UnreadCount ==
    \A i \in 1..Len(conversations) : \A user_id \in StoredIds :
        LET convo == conversations[i]
            marks == convo.last_read_at
            mine == MessagesOf(messages, convo._id)
            unread == {k \in mine :
                          /\ messages[k].sender_id # user_id
                          /\ (user_id \in DOMAIN marks =>
                                 messages[k].created_at > marks[user_id])}
            count == _compute_unread_count(messages, convo, user_id)
        IN  /\ count = Cardinality(unread)
            /\ count >= 0
            /\ (\A k \in mine : messages[k].sender_id = user_id) => count = 0

\* the patient has a read mark in the conversation with the doctor, the doctor sent
\* one message not later than the mark and one after it, the patient one too, and
\* the unread request of the patient answers 1
C15_Witness ==
    /\ 1 \in DOMAIN conversations[1].last_read_at
    /\ \E k \in MessagesOf(messages, PairThread) :
          /\ messages[k].sender_id = 2
          /\ messages[k].created_at <= conversations[1].last_read_at[1]
    /\ \E k \in MessagesOf(messages, PairThread) :
          /\ messages[k].sender_id = 2
          /\ messages[k].created_at > conversations[1].last_read_at[1]
    /\ \E k \in MessagesOf(messages, PairThread) : messages[k].sender_id = 1
    /\ _compute_unread_count(messages, conversations[1], 1) = 1
    /\ \A o \in api_unread(DB, 1, clock) : o.resp.unread = 1

-----------------------------------------------------------------------------
(* Read marks *)

\* what _compute_unread_count answers for user_id in the conversation convo_oid of
\* the database d
UnreadIn(d, convo_oid, user_id) ==
    LET i == CHOOSE k \in 1..Len(d.conversations) : d.conversations[k]._id = convo_oid
    IN  _compute_unread_count(d.messages, d.conversations[i], user_id)

\* a request of uid that marks thread_id read and succeeds leaves uid with no unread
\* message there
MarkedReadIsZero ==
    \A uid \in Requesters, thread_id \in ThreadIds :
        \A o \in api_mark_read(DB, uid, thread_id, clock)
                    \cup message_thread(DB, uid, thread_id, clock) :
            o.resp.status = 200 => UnreadIn(o.db, thread_id, uid) = 0

\* a step that adds no message to a conversation leaves a marked reader without
\* unread messages there
StaysZero ==
    \A i \in 1..Len(conversations), j \in 1..Len(conversations') :
        \A user_id \in StoredIds :
            (/\ conversations[i]._id = conversations'[j]._id
             /\ user_id \in DOMAIN conversations[i].last_read_at
             /\ _compute_unread_count(messages, conversations[i], user_id) = 0
             /\ MessagesOf(messages', conversations[i]._id)
                    = MessagesOf(messages, conversations[i]._id))
                => _compute_unread_count(messages', conversations'[j], user_id) = 0

\* C16: right after a successful api_mark_read or thread page view of a user, that
\* user's unread count for the conversation is 0 whatever messages were stored, and
\* it stays 0 through every step that sends no message in the conversation.
C16_ZeroAfterMarkRead == []MarkedReadIsZero /\ [][StaysZero]_vars

\* the patient sent a message, the doctor then marked the conversation read, and the
\* doctor has nothing unread there
C16_Witness ==
    /\ last = [status |-> 200, location |-> "", error |-> ""]
    /\ 2 \in DOMAIN conversations[1].last_read_at
    /\ \E k \in MessagesOf(messages, PairThread) :
          /\ messages[k].sender_id = 1
          /\ messages[k].created_at >= 1
          /\ messages[k].created_at <= conversations[1].last_read_at[2]
    /\ UnreadIn(DB, PairThread, 2) = 0

\* the outcomes of uid sending text in thread_id, through the API and the form
SendOutcomes(uid, thread_id, text) ==
    api_send_message(DB, uid, thread_id, text, clock)
        \cup send_message(DB, uid, thread_id, text, clock)

\* the outcome o of a send stored a message
Sent(o) == Len(o.db.messages) = Len(messages) + 1

\* C17: once a user has a read mark on a conversation, each message another
\* participant sends there afterwards raises that user's unread count by exactly 1,
\* and each message the user sends leaves it unchanged, in every order of the send
\* and mark-read requests.
C17_AsStated ==
    \A i \in 1..Len(conversations) : \A reader \in DOMAIN conversations[i].last_read_at :
        \A uid \in Requesters, text \in Texts :
            \A o \in SendOutcomes(uid, conversations[i]._id, text) :
                Sent(o) =>
                    UnreadIn(o.db, conversations[i]._id, reader)
                        = UnreadIn(DB, conversations[i]._id, reader)
                              + IF uid = reader THEN 0 ELSE 1

-----------------------------------------------------------------------------
(* Sending *)

\* form texts that are empty or whitespace only
BlankTexts == {sEmpty, <<" ">>, <<" ", " ">>}

\* C18: a send whose text is empty or whitespace only stores no message and leaves
\* every conversation's updated_at as it was, through the API and through the form;
\* the API answers a signed-in sender with the 400 "Empty message" error, whatever
\* thread the request names.
C18_BlankSendRejected ==
    \A uid \in Requesters, thread_id \in ThreadIds, text \in BlankTexts :
        /\ \A o \in SendOutcomes(uid, thread_id, text) :
              /\ o.db.messages = messages
              /\ o.db.conversations = conversations
        /\ uid # NoSession =>
              \A o \in api_send_message(DB, uid, thread_id, text, clock) :
                  o.resp = Resp(400, "", NoId, "Empty message", <<>>)
        /\ uid # NoSession =>
              \A o \in send_message(DB, uid, thread_id, text, clock) :
                  o.resp = Redirect("/messages/{thread_id}", thread_id)

\* a whitespace-only API send has been answered with the error; the stored messages
\* are the two seeded ones and no conversation's updated_at has moved
C18_Witness ==
    /\ last = [status |-> 400, location |-> "", error |-> "Empty message"]
    /\ Len(messages) = 2
    /\ \A i \in 1..Len(conversations) : conversations[i].updated_at = 0
    /\ \E o \in api_send_message(DB, 1, PairThread, <<" ">>, clock) : o.db = DB

\* the outcomes of uid sending text in thread_id that succeeded: the API answered
\* 200, or the form redirected back to the thread for a text that is not blank
SuccessfulSends(uid, thread_id, text) ==
    {o \in api_send_message(DB, uid, thread_id, text, clock) : o.resp.status = 200}
        \cup {o \in send_message(DB, uid, thread_id, text, clock) :
                 /\ Truthy(MessageText(text))
                 /\ o.resp = Redirect("/messages/{thread_id}", thread_id)}

\* the outcome o added exactly one message, of uid in thread_id and stamped now,
\* moved the updated_at of thread_id to now, and left the rest of that conversation,
\* every other conversation and every earlier message as they were
MessageAdded(o, uid, thread_id, text) ==
    /\ Len(o.db.messages) = Len(messages) + 1
    /\ SubSeq(o.db.messages, 1, Len(messages)) = messages
    /\ LET m == o.db.messages[Len(o.db.messages)]
       IN  /\ m.conversation_id = thread_id
           /\ m.sender_id = uid
           /\ m.created_at = clock
           /\ _decrypt_text(m.ciphertext) = Strip(text)
    /\ Len(o.db.conversations) = Len(conversations)
    /\ \A i \in 1..Len(conversations) :
          IF conversations[i]._id = thread_id
          THEN /\ o.db.conversations[i].updated_at = clock
               /\ o.db.conversations[i] = [conversations[i] EXCEPT !.updated_at = clock]
          ELSE o.db.conversations[i] = conversations[i]

\* C19 as stated: a successful send adds exactly one message (conversation_id = c,
\* sender_id = u, created_at = now), sets c.updated_at to now, and leaves c's
\* participants, created_at and read marks, all other conversations, all earlier
\* messages and all users unchanged.
C19_AsStated ==
    \A uid \in Requesters, thread_id \in ThreadIds, text \in Texts :
        \A o \in SuccessfulSends(uid, thread_id, text) :
            /\ MessageAdded(o, uid, thread_id, text)
            /\ o.db.users = users

\* C19: a successful send adds exactly one message (conversation_id = c, sender_id =
\* u, created_at = now), sets c.updated_at to now, and leaves c's participants,
\* created_at and read marks, all other conversations and all earlier messages
\* unchanged; the users are unchanged when the sender is not messaging-restricted,
\* and for a restricted sender only records of the configured admin emails are
\* added, changed or removed.
C19_SendFrame ==
    \A uid \in Requesters, thread_id \in ThreadIds, text \in Texts :
        \A o \in SuccessfulSends(uid, thread_id, text) :
            /\ MessageAdded(o, uid, thread_id, text)
            /\ ~_is_messaging_restricted(get_user_from_request(users, uid))
                  => o.db.users = users
            /\ \A u \in (users \ o.db.users) \cup (o.db.users \ users) :
                  \E e \in _admin_emails : u \in NormalizedEmailMatch({u}, e)

\* the doctor, pending again and so restricted, has sent a message to the admin:
\* the message is stored, stamped like the conversation's updated_at, and the
\* access check of that send has stored the admin mailbox
C19_Witness ==
    /\ last = [status |-> 200, location |-> "", error |-> ""]
    /\ _is_messaging_restricted(get_user_from_request(users, 2))
    /\ \E i \in 1..Len(conversations) :
          /\ conversations[i].participants = <<2, 4>>
          /\ \E k \in MessagesOf(messages, conversations[i]._id) :
                /\ messages[k].sender_id = 2
                /\ messages[k].created_at = conversations[i].updated_at
    /\ \E u \in users : u._id \notin RosterIds

-----------------------------------------------------------------------------
(* Polling *)

\* what the poll shows of the stored message m to the viewer user_id
Shown(m, user_id) ==
    [sender_id |-> m.sender_id, text |-> m.ciphertext.plaintext,
     created_at |-> m.created_at, is_me |-> m.sender_id = user_id]

\* the messages of thread_id a poll with this after asks for: all of them without
\* an after (one that does not parse counts as none), else those created strictly
\* later
Polled(thread_id, after) ==
    {k \in MessagesOf(messages, thread_id) :
        after \in 0..clock => messages[k].created_at > after}

\* C20: a successful /since poll on conversation c returns exactly the messages of
\* c, all of them when no after is given and else exactly those created strictly
\* after it, each once, in ascending created_at order, and no message of another
\* conversation.
C20_PollReturnsNewer ==
    \A uid \in Requesters, thread_id \in ThreadIds, after \in AfterValues(clock) :
        \A o \in api_messages_since(DB, uid, thread_id, after, clock) :
            o.resp.status = 200 =>
                LET rows == o.resp.messages
                    wanted == Polled(thread_id, after)
                IN  /\ Len(rows) = Cardinality(wanted)
                    /\ \A j \in 1..Len(rows) :
                          \E k \in wanted : rows[j] = Shown(messages[k], uid)
                    /\ \A k \in wanted :
                          Cardinality({j \in 1..Len(rows) : rows[j] = Shown(messages[k], uid)})
                              = Cardinality({n \in wanted : Shown(messages[n], uid)
                                                               = Shown(messages[k], uid)})
                    /\ \A j \in 1..(Len(rows) - 1) :
                          rows[j].created_at <= rows[j + 1].created_at
                    /\ o.db = DB

\* the last request was answered 200; the conversation of the patient and the doctor
\* holds the seeded message and a later one, the other conversation holds a message too,
\* and the patient's poll after the seeded message's time returns the later one only
C20_Witness ==
    /\ last = [status |-> 200, location |-> "", error |-> ""]
    /\ Cardinality(MessagesOf(messages, PairThread)) = 2
    /\ MessagesOf(messages, AdminThread) # {}
    /\ \A o \in api_messages_since(DB, 1, PairThread, 0, clock) :
          /\ Len(o.resp.messages) = 1
          /\ o.resp.messages[1].created_at >= 1
    /\ \A o \in api_messages_since(DB, 1, PairThread, NoAfter, clock) :
          Len(o.resp.messages) = 2

-----------------------------------------------------------------------------
(* Who may do what: restricted and unrestricted requesters on stored conversations *)

\* a user whose record carries the restricted flag and who is no doctor
RestrictedMember == UserDoc(3, PyFalse, sUser, <<"u", "@", "x">>, None, None, None, PyTrue, 0)

\* the doctor, whose verification is pending
PendingDoctor == UserDoc(2, PyFalse, sDoctor, <<"d", "@", "x">>, sPending, None, None, None, 0)

\* conversations stored before the run: the doctor's with the patient (opened while
\* the doctor was verified), the restricted member's with the patient (opened by
\* the patient), and the admin's own admin conversation, which
\* _ensure_admin_conversation stores as the single id of an admin requester
MemberThread == 8

SelfThread == 9

\* the text of the message stored in each seeded conversation
SeededText(convo_oid) ==
    IF convo_oid = PairThread THEN <<"h", "i">>
    ELSE IF convo_oid = AdminThread THEN <<"o", "k">>
    ELSE IF convo_oid = MemberThread THEN <<"y", "o">>
    ELSE <<"m", "e">>

\* The patient, the pending doctor, the restricted member and the admin; no admin
\* mailbox is configured. The doctor's two conversations are stored, or the
\* member's and the admin's own; each holds one message of its first participant.
InitPolicy ==
    /\ settings = Settings(<<>>)
    /\ users = {u \in Roster : u._id \in {1, 4}} \cup {PendingDoctor, RestrictedMember}
    /\ conversations \in
          {<<SeededConversation(PairThread, <<1, 2>>, <<>>),
             SeededConversation(AdminThread, <<2, 4>>, <<>>)>>,
           <<SeededConversation(MemberThread, <<1, 3>>, <<>>),
             SeededConversation(SelfThread, <<4>>, <<>>)>>}
    /\ messages = [i \in 1..Len(conversations) |->
                      SeededMessage(conversations[i]._id, conversations[i].participants[1],
                                    SeededText(conversations[i]._id))]
    /\ nextId = 10
    /\ clock = 1
    /\ last = NoRequest
    /\ pUser = NoUser
    /\ pConvo = <<>>
    /\ pOut = NotEvaluated
    /\ reqs = <<>>
    /\ pending_users = {}

NextPolicy ==
    \/ Tick
    \/ MessageThread
    \/ ApiSendMessage
    \/ ApiMessagesSince
    \/ ApiMarkRead

SpecPolicy == InitPolicy /\ [][NextPolicy]_vars

\* the requester uid may read the conversation stored at index i: signed in, a
\* participant, and passing the access check if messaging-restricted
MayRead(uid, i) ==
    LET user == get_user_from_request(users, uid)
    IN  /\ user # NoUser
        /\ user._id \in Range(conversations[i].participants)
        /\ _is_messaging_restricted(user) =>
              \E a \in _restricted_can_access_conversation(users, nextId, clock, user,
                                                           conversations[i]) : a.ok

\* the thread page and the poll, for every after value
ReadOutcomes(uid, thread_id) ==
    message_thread(DB, uid, thread_id, clock)
        \cup UNION {api_messages_since(DB, uid, thread_id, after, clock) :
                        after \in AfterValues(clock)}

\* C21: the thread page and the /since poll return message bodies of a conversation
\* only to a requester who is signed in, is a participant of it and, if
\* messaging-restricted, passes the access check for it; every other response
\* carries no message text.
C21_BodiesOnlyToReaders ==
    \A uid \in Requesters, thread_id \in ThreadIds \cup {StartAdminPath} :
        \A o \in ReadOutcomes(uid, thread_id) :
            o.resp.messages # <<>> =>
                /\ o.resp.status = 200
                /\ \E i \in 1..Len(conversations) :
                      /\ conversations[i]._id = thread_id
                      /\ MayRead(uid, i)
                /\ \A j \in 1..Len(o.resp.messages) :
                      \E k \in MessagesOf(messages, thread_id) :
                          o.resp.messages[j].text = messages[k].ciphertext.plaintext

\* the pending doctor is refused the bodies of the conversation with the patient
\* and is shown those of the conversation with the admin, which was just answered
C21_Witness ==
    /\ last = [status |-> 200, location |-> "", error |-> ""]
    /\ \E i \in 1..Len(conversations) :
          conversations[i]._id = PairThread /\ ~MayRead(2, i) /\ MayRead(1, i)
    /\ \A o \in ReadOutcomes(2, PairThread) : o.resp.messages = <<>>
    /\ \A o \in ReadOutcomes(4, PairThread) : o.resp.messages = <<>>
    /\ \A o \in ReadOutcomes(NoSession, PairThread) : o.resp.messages = <<>>
    /\ \E o \in ReadOutcomes(2, AdminThread) : o.resp.messages # <<>>
    /\ 2 \in DOMAIN conversations[2].last_read_at

-----------------------------------------------------------------------------
(* Message bodies at rest *)

\* the fields of a stored message and of a stored conversation
MessageFields == {"conversation_id", "sender_id", "ciphertext", "created_at"}

ConversationFields == {"_id", "participants", "created_at", "updated_at", "last_read_at"}

\* the row m holds its body as a token made under the configured key, and holds
\* nothing else besides the conversation id, the sender id and the time
BodyEncrypted(m) ==
    /\ DOMAIN m = MessageFields
    /\ m.ciphertext.key = FernetKey
    /\ m.conversation_id \in Int /\ m.sender_id \in Int /\ m.created_at \in Int

\* C22: every stored message holds its body only as the ciphertext made from the
\* text under the key derived from the configured secret, no other field of a
\* message or of a conversation holds a body, and the row a send stores holds the
\* ciphertext of the stripped text.
C22_BodiesStoredEncrypted ==
    /\ \A k \in 1..Len(messages) : BodyEncrypted(messages[k])
    /\ \A i \in 1..Len(conversations) : DOMAIN conversations[i] = ConversationFields
    /\ \A uid \in Requesters, thread_id \in ThreadIds, text \in Texts :
          \A o \in SendOutcomes(uid, thread_id, text) :
              /\ \A k \in 1..Len(o.db.messages) : BodyEncrypted(o.db.messages[k])
              /\ \A i \in 1..Len(o.db.conversations) :
                    DOMAIN o.db.conversations[i] = ConversationFields
              /\ Len(o.db.messages) > Len(messages) =>
                    o.db.messages[Len(o.db.messages)].ciphertext
                        = [key |-> FernetKey, plaintext |-> Strip(text)]

\* a message sent during the run is stored, as a token under the configured key
\* that decrypts to the stripped text
C22_Witness ==
    /\ last = [status |-> 200, location |-> "", error |-> ""]
    /\ \E k \in 1..Len(messages) :
          /\ messages[k].created_at >= 1
          /\ BodyEncrypted(messages[k])
          /\ _decrypt_text(messages[k].ciphertext) = <<"h", "i">>

-----------------------------------------------------------------------------
(* Decryption of stored bodies *)

\* what a stored ciphertext field may hold: a token made under the configured key,
\* one made under another secret, one whose bytes were altered (its authentication
\* fails), and the empty string of a row without ciphertext
StoredTokens ==
    {_encrypt_text(<<"h", "i">>),
     [key |-> <<"urlsafe_b64encode", <<"sha256", "OLD">>>>, plaintext |-> <<"o", "k">>],
     [key |-> <<"tampered">>, plaintext |-> <<"y", "o">>],
     [key |-> <<>>, plaintext |-> <<>>]}

\* The patient and the doctor with their conversation, holding two messages of the
\* doctor with any stored tokens.
InitCipher ==
    /\ settings = Settings(<<>>)
    /\ users = {u \in Roster : u._id \in {1, 2}}
    /\ conversations = <<SeededConversation(PairThread, <<1, 2>>, <<>>)>>
    /\ \E t1 \in StoredTokens, t2 \in StoredTokens :
          messages = <<[SeededMessage(PairThread, 2, <<>>) EXCEPT !.ciphertext = t1],
                       [SeededMessage(PairThread, 2, <<>>) EXCEPT !.ciphertext = t2]>>
    /\ nextId = 7
    /\ clock = 1
    /\ last = NoRequest
    /\ pUser = NoUser
    /\ pConvo = <<>>
    /\ pOut = NotEvaluated
    /\ reqs = <<>>
    /\ pending_users = {}

NextCipher ==
    \/ Tick
    \/ ApiSendMessage
    \/ ApiMessagesSince
    \/ MessageThread

SpecCipher == InitCipher /\ [][NextCipher]_vars

\* non-empty texts
PlainTexts == {<<"h", "i">>, <<" ">>, <<" ", "h", "i", " ">>, <<"x">>}

\* the text a reader is shown for the stored row m
Readable(m) == IF m.ciphertext.key = FernetKey THEN m.ciphertext.plaintext ELSE sEmpty

-----------------------------------------------------------------------------
(* Denials of the API operations *)

\* the outcomes of the three API operations of uid on thread_id, the send with a
\* text that is not blank
ApiOutcomes(uid, thread_id) ==
    api_send_message(DB, uid, thread_id, <<" ", "h", "i", " ">>, clock)
        \cup api_mark_read(DB, uid, thread_id, clock)
        \cup UNION {api_messages_since(DB, uid, thread_id, after, clock) :
                        after \in AfterValues(clock)}

\* the signed-in uid is a participant of the conversation at index i, is
\* messaging-restricted, and the access check refuses
PolicyDenied(uid, i) ==
    LET user == get_user_from_request(users, uid)
    IN  /\ user # NoUser
        /\ user._id \in Range(conversations[i].participants)
        /\ ~MayRead(uid, i)

\* C24: on API send, poll and mark-read, a restricted doctor whom the access check
\* refuses gets a 403 carrying the wait-for-verification message; a signed-in
\* requester who is no participant, and a restricted requester who is no doctor and
\* is refused, get a 403 without that message.
C24_DoctorDenialDistinct ==
    \A uid \in Requesters \ {NoSession} : \A i \in 1..Len(conversations) :
        LET user == get_user_from_request(users, uid)
            doctor == NormField(user.role) = sDoctor
        IN  \A o \in ApiOutcomes(uid, conversations[i]._id) :
                /\ (PolicyDenied(uid, i) /\ doctor) =>
                      /\ o.resp.status = 403
                      /\ o.resp.error = "Please wait for admin to verify your account."
                /\ (uid \notin Range(conversations[i].participants)
                        \/ (PolicyDenied(uid, i) /\ ~doctor)) =>
                      /\ o.resp.status = 403
                      /\ o.resp.error # "Please wait for admin to verify your account."
                /\ o.resp.status = 403 => o.db.messages = messages

\* the pending doctor has just been refused with the wait-for-verification message
\* on the conversation with the patient, and the patient, no participant of the
\* doctor's conversation with the admin, is refused there without it
C24_Witness ==
    /\ last = [status |-> 403, location |-> "",
               error |-> "Please wait for admin to verify your account."]
    /\ \E i \in 1..Len(conversations) :
          conversations[i]._id = PairThread /\ PolicyDenied(2, i)
    /\ \A o \in ApiOutcomes(1, AdminThread) :
          o.resp.status = 403 /\ o.resp.error \in {"Forbidden", ""}

-----------------------------------------------------------------------------
(* Unknown and malformed conversation ids *)

ApiOperations == {"send", "since", "read"}

\* the outcomes of one API operation of uid on thread_id with this text
ApiCall(op, uid, thread_id, text) ==
    IF op = "send" THEN api_send_message(DB, uid, thread_id, text, clock)
    ELSE IF op = "read" THEN api_mark_read(DB, uid, thread_id, clock)
    ELSE UNION {api_messages_since(DB, uid, thread_id, after, clock) :
                    after \in AfterValues(clock)}

\* what the operation answers a participant whom the access check refuses
ForbiddenAnswers(op) ==
    {o.resp : o \in UNION {ApiCall(op, d[1], conversations[d[2]]._id, <<"h", "i">>) :
                              d \in {p \in Requesters \X (1..Len(conversations)) :
                                        PolicyDenied(p[1], p[2])}}}

\* what the send answers a signed-in requester's blank text
ValidationAnswers(op) ==
    IF op # "send" THEN {}
    ELSE {o.resp : o \in UNION {ApiCall(op, uid, thread_id, <<" ">>) :
                                   uid \in Requesters \ {NoSession},
                                   thread_id \in ThreadIds}}

\* C25 as stated: an API send, poll or mark-read that names a malformed
\* conversation id, or an id no conversation has, gets an answer that differs from
\* what the operation answers a refused participant and from what it answers a
\* blank text, and changes no state.
C25_AsStated ==
    \A op \in ApiOperations, uid \in Requesters \ {NoSession} :
        \A thread_id \in {nextId, Malformed} :
            \A o \in ApiCall(op, uid, thread_id, <<"h", "i">>) :
                /\ o.db = DB
                /\ o.resp \notin ForbiddenAnswers(op)
                /\ o.resp \notin ValidationAnswers(op)

-----------------------------------------------------------------------------
(* Conversations with no other participant *)

\* view, API send, form send, poll and mark-read of uid on thread_id
AllOutcomes(uid, thread_id) ==
    ReadOutcomes(uid, thread_id)
        \cup SendOutcomes(uid, thread_id, <<" ", "h", "i", " ">>)
        \cup api_mark_read(DB, uid, thread_id, clock)

\* C26 as stated: a conversation whose participants without the requester are empty
\* is never accessible: for every requester, restricted or not, view, send, poll
\* and mark-read on it are refused, and store nothing in it.
C26_AsStated ==
    \A uid \in Requesters \ {NoSession} : \A i \in 1..Len(conversations) :
        (Range(conversations[i].participants) = {uid}) =>
            \A o \in AllOutcomes(uid, conversations[i]._id) :
                /\ o.resp.status # 200
                /\ o.resp.messages = <<>>
                /\ o.db.messages = messages
                /\ \E j \in 1..Len(o.db.conversations) :
                      o.db.conversations[j] = conversations[i]

-----------------------------------------------------------------------------
(* Thread lists *)

\* first_name and last_name of the stored users, which no handler here writes: the
\* accounts of the roster carry their own, an admin mailbox record the "Admin" and
\* "" that _get_admin_users inserts
FirstName(u) ==
    CASE u._id = 1 -> <<"P", "a", "t">>
      [] u._id = 2 -> <<"D", "o", "c">>
      [] u._id = 3 -> <<"R", "o", "y">>
      [] u._id = 4 -> <<"A", "l">>
      [] OTHER -> <<"A", "d", "m", "i", "n">>

LastName(u) == IF u._id \in 1..4 THEN <<"X">> ELSE <<>>

\* what _admin_broadcast_counterparty returns besides a participant id
NoCounterparty == 0

AdminMarker == -4

\* faulty variant: an admin thread is never recognised
_admin_broadcast_counterparty_none(convo, user_id, admin_ids) == NoCounterparty

_admin_broadcast_counterparty(convo, user_id, admin_ids) ==
    LET participants == convo.participants
        admin_participants == SelectSeq(participants, LAMBDA pid : pid \in admin_ids)
        non_admin_participants == SelectSeq(participants, LAMBDA pid : pid \notin admin_ids)
    IN  IF participants = <<>> \/ admin_ids = {} THEN NoCounterparty
        ELSE IF admin_participants = <<>> THEN NoCounterparty
        ELSE IF Len(non_admin_participants) # 1 THEN NoCounterparty
        ELSE IF user_id \in admin_ids THEN non_admin_participants[1]
        ELSE IF user_id = non_admin_participants[1] THEN AdminMarker
        ELSE NoCounterparty

sAdminTitle == <<"A", "d", "m", "i", "n">>

sConversation == <<"C", "o", "n", "v", "e", "r", "s", "a", "t", "i", "o", "n">>

\* the title of a conversation in the thread list of user_id
ThreadTitle(us, convo, user_id, admin_ids) ==
    LET admin_counterparty == _admin_broadcast_counterparty(convo, user_id, admin_ids)
        others == Others(convo.participants, user_id)
        other_id == IF admin_counterparty \notin {NoCounterparty, AdminMarker}
                    THEN admin_counterparty
                    ELSE IF admin_counterparty = NoCounterparty /\ others # <<>>
                    THEN others[1]
                    ELSE NoId
        other_user == IF other_id = NoId THEN NoUser ELSE FindUser(us, other_id)
        full == FirstName(other_user) \o <<" ">> \o LastName(other_user)
        other_name == IF admin_counterparty = AdminMarker THEN sAdminTitle
                      ELSE IF other_user = NoUser THEN None
                      ELSE IF other_user.role = sDoctor
                      THEN Strip(<<"D", "r", ".", " ">> \o full)
                      ELSE Strip(full)
    IN  PyOr(other_name, sConversation)

\* the conversations of user_id as find({"participants": user_id}).sort("updated_at",
\* -1) yields them (stored order among equal updated_at)
RECURSIVE ByUpdatedAtDesc(_)
ByUpdatedAtDesc(cs) ==
    IF cs = <<>> THEN <<>>
    ELSE LET i == CHOOSE k \in 1..Len(cs) :
                      /\ \A j \in 1..Len(cs) : cs[k].updated_at >= cs[j].updated_at
                      /\ \A j \in 1..(k - 1) : cs[j].updated_at < cs[k].updated_at
         IN  <<cs[i]>> \o ByUpdatedAtDesc(SubSeq(cs, 1, i - 1) \o SubSeq(cs, i + 1, Len(cs)))

\* the loop that fills threads, from the (users, nextId, threads) so far: a
\* restricted doctor's conversation is listed locked when the access check refuses,
\* another restricted viewer's is left out
RECURSIVE ThreadLoop(_, _, _, _, _, _)
ThreadLoop(st, ms, user, admin_ids, cs, now) ==
    IF cs = <<>> THEN {st}
    ELSE LET convo == Head(cs)
             restricted_mode == _is_messaging_restricted(user)
             entry(us, locked) ==
                 [_id |-> convo._id,
                  title |-> ThreadTitle(us, convo, user._id, admin_ids),
                  unread_count |-> _compute_unread_count(ms, convo, user._id),
                  locked |-> locked]
         IN  IF ~restricted_mode
             THEN ThreadLoop([st EXCEPT !.threads = Append(@, entry(st.users, FALSE))],
                             ms, user, admin_ids, Tail(cs), now)
             ELSE UNION {
                     ThreadLoop([users |-> a.users, nextId |-> a.nextId,
                                 threads |-> IF IsDoctorRole(user)
                                             THEN Append(st.threads, entry(a.users, ~a.ok))
                                             ELSE IF a.ok
                                             THEN Append(st.threads, entry(a.users, FALSE))
                                             ELSE st.threads],
                                ms, user, admin_ids, Tail(cs), now) :
                         a \in _restricted_can_access_conversation(st.users, st.nextId,
                                                                   now, user, convo)}

\* admin_ids = await _get_admin_ids(db), then the loop: the possible (database,
\* threads) pairs
ThreadLists(d, user, now) ==
    UNION {
        {[db |-> [d EXCEPT !.users = st.users, !.nextId = st.nextId],
          threads |-> st.threads] :
            st \in ThreadLoop([users |-> r.users, nextId |-> r.nextId, threads |-> <<>>],
                              d.messages, user, r.admin_ids,
                              ByUpdatedAtDesc(SelectSeq(d.conversations,
                                  LAMBDA c : user._id \in Range(c.participants))),
                              now)}
        : r \in _get_admin_ids(d.users, d.nextId, now)}

\* a response that carries a thread list
WithThreads(resp, threads) ==
    [status |-> resp.status, location |-> resp.location, thread |-> resp.thread,
     error |-> resp.error, messages |-> resp.messages, threads |-> threads]

\* GET /messages: the inbox page
messages_page(d, uid, now) ==
    LET user == get_user_from_request(d.users, uid)
    IN  IF user = NoUser
        THEN {[db |-> d, resp |-> WithThreads(Redirect("/login", NoId), <<>>)]}
        ELSE {[db |-> t.db,
               resp |-> WithThreads(Resp(200, "", NoId, "", <<>>), t.threads)] :
                 t \in ThreadLists(d, user, now)}

\* GET /api/messages/threads
api_threads(d, uid, now) ==
    LET user == get_user_from_request(d.users, uid)
    IN  IF user = NoUser
        THEN {[db |-> d, resp |-> WithThreads(Resp(401, "", NoId, "", <<>>), <<>>)]}
        ELSE {[db |-> t.db,
               resp |-> WithThreads(Resp(200, "", NoId, "", <<>>), t.threads)] :
                 t \in ThreadLists(d, user, now)}

\* the thread lists the thread page shows: the same loop, run after the read mark is
\* written
message_thread_threads(d, uid, thread_id, now) ==
    UNION {{t.threads : t \in ThreadLists(o.db, get_user_from_request(o.db.users, uid), now)} :
              o \in {x \in message_thread(d, uid, thread_id, now) : x.resp.status = 200}}

Messages ==
    \E uid \in Requesters :
        \E o \in messages_page(DB, uid, clock) :
            Commit(o)

ApiThreads ==
    \E uid \in Requesters :
        \E o \in api_threads(DB, uid, clock) :
            Commit(o)

\* a second admin identity, by role, with a name of its own
SecondAdmin == UserDoc(3, PyFalse, sAdmin, <<"u", "@", "x">>, None, None, None, None, 0)

\* conversations stored before the run. With one admin: the patient's and the
\* doctor's admin conversations and the admin's own; with two admins: the patient's
\* admin conversation, the one an admin requester gets from _ensure_admin_conversation
\* (the admin ids alone), and the patient's with the doctor
InitThreads ==
    /\ settings = Settings(<<>>)
    /\ \/ /\ users = {u \in Roster : u._id \in {1, 4}} \cup {PendingDoctor}
          /\ conversations = <<SeededConversation(PairThread, <<1, 4>>, <<>>),
                               SeededConversation(AdminThread, <<2, 4>>, <<>>),
                               SeededConversation(SelfThread, <<4>>, <<>>)>>
       \/ /\ users = {u \in Roster : u._id \in {1, 4}} \cup {PendingDoctor, SecondAdmin}
          /\ conversations = <<SeededConversation(PairThread, <<1, 3, 4>>, <<>>),
                               SeededConversation(AdminThread, <<3, 4>>, <<>>),
                               SeededConversation(MemberThread, <<1, 2>>, <<>>)>>
    /\ messages = <<SeededMessage(conversations[1]._id, 1, <<"h", "i">>)>>
    /\ nextId = 10
    /\ clock = 1
    /\ last = NoRequest
    /\ pUser = NoUser
    /\ pConvo = <<>>
    /\ pOut = NotEvaluated
    /\ reqs = <<>>
    /\ pending_users = {}

NextThreads ==
    \/ Tick
    \/ Messages
    \/ ApiThreads
    \/ MessageThread
    \/ ApiSendMessage

SpecThreads == InitThreads /\ [][NextThreads]_vars

\* the thread lists a request of uid can be answered with now: the inbox page, the
\* API list, and the list of the thread page of any thread
ThreadListsShown(uid) ==
    {o.resp.threads : o \in {x \in messages_page(DB, uid, clock) : x.resp.status = 200}}
        \cup {o.resp.threads : o \in {x \in api_threads(DB, uid, clock) : x.resp.status = 200}}
        \cup UNION {message_thread_threads(DB, uid, thread_id, clock) : thread_id \in ThreadIds}

\* the stored conversation an entry of a thread list stands for
ListedConversation(e) ==
    conversations[CHOOSE i \in 1..Len(conversations) : conversations[i]._id = e._id]

\* a conversation in which uid has other participants, all of them admin identities
AllOthersAdmin(convo, uid) ==
    /\ Others(convo.participants, uid) # <<>>
    /\ Range(Others(convo.participants, uid)) \subseteq AdminIdsOf(users)

\* C27 as stated: in every thread list, for every viewer, a conversation whose other
\* participants are all admin identities is titled "Admin"
C27_AsStated ==
    \A uid \in Requesters :
        \A threads \in ThreadListsShown(uid) :
            \A k \in 1..Len(threads) :
                AllOthersAdmin(ListedConversation(threads[k]), uid)
                    => threads[k].title = sAdminTitle

\* C27: in every thread list of a viewer who is not an admin identity, a
\* conversation whose other participants are all admin identities is titled with the
\* fixed string "Admin", whatever the number of admins; an admin viewer of such a
\* conversation is shown the first other participant's name
C27_AdminTitle ==
    \A uid \in Requesters :
        \A threads \in ThreadListsShown(uid) :
            \A k \in 1..Len(threads) :
                AllOthersAdmin(ListedConversation(threads[k]), uid)
                    => IF uid \notin AdminIdsOf(users)
                       THEN threads[k].title = sAdminTitle
                       ELSE threads[k].title =
                                <<"R", "o", "y", " ", "X">> \/ threads[k].title = <<"A", "l", " ", "X">>

\* the patient's list holds the conversation with both admins, titled "Admin", after
\* a request was answered 200
C27_Witness ==
    /\ last.status = 200
    /\ \E threads \in ThreadListsShown(1) :
           \E k \in 1..Len(threads) :
               /\ ListedConversation(threads[k]).participants = <<1, 3, 4>>
               /\ threads[k].title = sAdminTitle

-----------------------------------------------------------------------------
(* Conversations and messages are an append-only log *)

\* the stored conversations and messages of InitMessaging, under every handler that
\* writes conversations or messages
NextLog ==
    \/ Tick
    \/ StartMessage
    \/ StartAdminMessage
    \/ MessageThread
    \/ ApiSendMessage
    \/ SendMessage
    \/ ApiMarkRead

SpecLog == InitMessaging /\ [][NextLog]_vars

\* every stored conversation is still stored, with its participants and created_at
ConversationsKept ==
    /\ Len(conversations') >= Len(conversations)
    /\ \A i \in 1..Len(conversations) :
           /\ conversations'[i]._id = conversations[i]._id
           /\ conversations'[i].participants = conversations[i].participants
           /\ conversations'[i].created_at = conversations[i].created_at

\* every stored message is still stored, unchanged
MessagesKept ==
    /\ Len(messages') >= Len(messages)
    /\ \A i \in 1..Len(messages) : messages'[i] = messages[i]

\* updated_at of a stored conversation changes only with a message added to it,
\* stamped with the new value
UpdatedAtOnSend ==
    \A i \in 1..Len(conversations) :
        conversations'[i].updated_at # conversations[i].updated_at
            => /\ Len(messages') = Len(messages) + 1
               /\ messages'[Len(messages')].conversation_id = conversations[i]._id
               /\ messages'[Len(messages')].created_at = conversations'[i].updated_at
               /\ last'.status \in {200, 303}

\* last_read_at of a stored conversation changes only in a request answered 200 that
\* adds no message (mark-read, thread view), and only by the entry of one
\* participant, set to the time of the request
ReadMarkOnRead ==
    \A i \in 1..Len(conversations) :
        conversations'[i].last_read_at # conversations[i].last_read_at
            => /\ messages' = messages
               /\ last'.status = 200
               /\ \E u \in Range(conversations[i].participants) :
                      conversations'[i].last_read_at =
                          (u :> clock) @@ conversations[i].last_read_at

\* C28: across every sequence of operations no conversation or message is deleted,
\* a conversation's participants and created_at and a message's fields never change,
\* and only updated_at (on send) and last_read_at entries (on mark-read or thread
\* view) are mutated
C28_AppendOnly ==
    [][ConversationsKept /\ MessagesKept /\ UpdatedAtOnSend /\ ReadMarkOnRead]_vars

\* a conversation was created in the run, and a conversation stored before it holds
\* a message sent in the run, its updated_at moved to the time of that message
C28_Witness ==
    /\ \E i \in 1..Len(conversations) : conversations[i].created_at >= 1
    /\ \E i \in 1..Len(conversations) :
           /\ conversations[i].created_at = 0
           /\ conversations[i].updated_at >= 1
           /\ \E k \in 1..Len(messages) :
                  /\ messages[k].conversation_id = conversations[i]._id
                  /\ messages[k].created_at = conversations[i].updated_at

-----------------------------------------------------------------------------
(* What mark-read and send leave alone *)

\* the conversation c2 is c1 but for the read mark of uid, which is now
OnlyMarkOf(c1, c2, uid, now) ==
    /\ c2 = [c1 EXCEPT !.last_read_at = c2.last_read_at]
    /\ DOMAIN c2.last_read_at = DOMAIN c1.last_read_at \cup {uid}
    /\ c2.last_read_at[uid] = now
    /\ \A k \in DOMAIN c1.last_read_at \ {uid} : c2.last_read_at[k] = c1.last_read_at[k]

\* a mark-read of uid on thread_id with outcome o wrote the mark of uid in that
\* conversation (answered 200) or wrote nothing, and no other participant's unread
\* count moved
MarkReadFrame(o, uid, thread_id) ==
    /\ o.db.messages = messages
    /\ Len(o.db.conversations) = Len(conversations)
    /\ \A i \in 1..Len(conversations) :
           /\ IF o.resp.status = 200 /\ conversations[i]._id = thread_id
              THEN OnlyMarkOf(conversations[i], o.db.conversations[i], uid, clock)
              ELSE o.db.conversations[i] = conversations[i]
           /\ \A v \in Range(conversations[i].participants) \ {uid} :
                  UnreadIn(o.db, conversations[i]._id, v) = UnreadIn(DB, conversations[i]._id, v)

\* C29: a mark-read by u on c changes only last_read_at[u] of c (the other marks,
\* updated_at, all messages and all other conversations stay, and so does every other
\* viewer's unread count), and a send writes no read mark for anyone
C29_MarkReadFrame ==
    \A uid \in Requesters, thread_id \in ThreadIds :
        /\ \A o \in api_mark_read(DB, uid, thread_id, clock) :
               MarkReadFrame(o, uid, thread_id)
        /\ \A text \in Texts :
               \A o \in SendOutcomes(uid, thread_id, text) :
                   /\ Len(o.db.conversations) = Len(conversations)
                   /\ \A i \in 1..Len(conversations) :
                          o.db.conversations[i].last_read_at = conversations[i].last_read_at

\* the conversation of 1 and 2 holds the mark 1 had before the run and a mark 2 wrote
\* in it, and a message sent in the run, after a request answered 200
C29_Witness ==
    /\ last.status = 200
    /\ \E i \in 1..Len(conversations) :
           /\ conversations[i]._id = PairThread
           /\ DOMAIN conversations[i].last_read_at = {1, 2}
           /\ conversations[i].last_read_at[1] = 0
           /\ conversations[i].last_read_at[2] >= 1
    /\ \E k \in 1..Len(messages) : messages[k].created_at >= 1

-----------------------------------------------------------------------------
(* The admin id set against the per-user admin test *)

\* role spellings of a stored user: those of RoleValues and a mixed-case "admin"
StoredRoles == RoleValues \cup {<<"a", "D", "m", "i", "n">>}

\* a stored user over bounded is_admin, role and email, next to a second account that
\* may carry the configured admin email as well
InitResolve ==
    /\ settings = Settings(admin_emails)
    /\ \E a \in IsAdminValues, r \in StoredRoles, e \in EmailValues,
          e2 \in {<<"p", "@", "x">>, <<"m", "@", "x">>} :
          users = {UserDoc(1, a, r, e, None, None, None, None, 0),
                   UserDoc(2, None, sUser, e2, None, None, None, None, 0)}
    /\ conversations = <<>>
    /\ messages = <<>>
    /\ nextId = 3
    /\ clock = 1
    /\ last = NoRequest
    /\ pUser = NoUser
    /\ pConvo = <<>>
    /\ pOut = NotEvaluated
    /\ reqs = <<>>
    /\ pending_users = {}

\* a caller resolves the admin ids: the mailboxes are reconciled, the roster is
\* queried, and the caller holds the id set
ResolveAdminIds ==
    /\ \E r \in _get_admin_ids(users, nextId, clock) :
           /\ users' = r.users
           /\ nextId' = r.nextId
           /\ pOut' = [evaluated |-> TRUE, admin_ids |-> r.admin_ids]
    /\ UNCHANGED <<conversations, messages, clock, last, settings, pUser, pConvo, reqs, pending_users>>

NextResolve == ResolveAdminIds

SpecResolve == InitResolve /\ [][NextResolve]_vars

\* C30 as stated: when the admin id set has just been resolved, every stored user's
\* id is in the set iff _is_admin_user holds for that user
C30_AsStated ==
    pOut.evaluated =>
        \A x \in users : (x._id \in pOut.admin_ids) <=> _is_admin_user(x)

-----------------------------------------------------------------------------
(* The admin conversation as the way out for a restricted user *)

\* a patient, a pending doctor and a member flagged restricted, with or without an
\* admin account and with or without a configured admin email; no conversation yet
InitEscalation ==
    /\ settings \in {Settings(<<>>), Settings(admin_emails)}
    /\ users \in {{u \in Roster : u._id = 1} \cup {PendingDoctor, RestrictedMember} \cup A :
                     A \in SUBSET {u \in Roster : u._id = 4}}
    /\ conversations = <<>>
    /\ messages = <<>>
    /\ nextId = 6
    /\ clock = 1
    /\ last = NoRequest
    /\ pUser = NoUser
    /\ pConvo = <<>>
    /\ pOut = NotEvaluated
    /\ reqs = <<>>
    /\ pending_users = {}

NextEscalation ==
    \/ Tick
    \/ StartAdminMessage
    \/ MessageThread
    \/ ApiMessagesSince
    \/ ApiSendMessage
    \/ ApiMarkRead

SpecEscalation == InitEscalation /\ [][NextEscalation]_vars

\* at least one admin identity is resolvable from the store d
AdminResolvable(d) ==
    \E r \in _get_admin_ids(d.users, d.nextId, clock) : r.admin_ids # {}

\* from the store d, uid's view, poll, send and mark-read on thread_id, one after the
\* other, are each answered 200 in every outcome
AllPermitted(d, uid, thread_id) ==
    \A v \in message_thread(d, uid, thread_id, clock) :
        /\ v.resp.status = 200
        /\ \A after \in AfterValues(clock) \ {BadAfter} :
               \A p \in api_messages_since(v.db, uid, thread_id, after, clock) :
                   /\ p.resp.status = 200
                   /\ \A s \in api_send_message(p.db, uid, thread_id, <<" ", "h", "i", " ">>, clock) :
                          /\ s.resp.status = 200
                          /\ \A m \in api_mark_read(s.db, uid, thread_id, clock) :
                                 m.resp.status = 200

\* C31: whenever an admin identity is resolvable, a restricted user's start-admin
\* request yields a conversation on which that user's following view, poll, send and
\* mark-read are all permitted, the admin roster being the same; and every
\* conversation of a restricted user with the current admin ids stays usable.
C31_EscalationReachable ==
    \A uid \in Requesters :
        (uid # NoSession /\ _is_messaging_restricted(get_user_from_request(users, uid))
            /\ AdminResolvable(DB))
        => /\ \A o \in start_admin_message(DB, uid, clock) :
               /\ o.resp.status = 303
               /\ o.resp.thread # NoId
               /\ \E i \in 1..Len(o.db.conversations) :
                      /\ o.db.conversations[i]._id = o.resp.thread
                      /\ uid \in Range(o.db.conversations[i].participants)
               /\ AllPermitted(o.db, uid, o.resp.thread)
           /\ \A i \in 1..Len(conversations) :
                  Range(conversations[i].participants) = {uid} \cup AdminIdsOf(users)
                      => AllPermitted(DB, uid, conversations[i]._id)

\* the pending doctor's admin conversation was created in the run and holds a message
\* the doctor sent in it
C31_Witness ==
    /\ _is_messaging_restricted(get_user_from_request(users, 2))
    /\ \E i \in 1..Len(conversations) :
           /\ conversations[i].created_at >= 1
           /\ 2 \in Range(conversations[i].participants)
           /\ \E k \in 1..Len(messages) :
                  /\ messages[k].conversation_id = conversations[i]._id
                  /\ messages[k].sender_id = 2

-----------------------------------------------------------------------------
(* Duplicate records of a configured admin email *)

\* spellings of stored emails: the configured admin email as it is normalised, the
\* same in other case with trailing whitespace, and another address
DupeEmails == {<<"m", "@", "x">>, <<"M", "@", "X", " ">>, <<"p", "@", "x">>}

\* three stored records, each with one of the emails and created at 0 or at 1
InitDedupe ==
    /\ settings = Settings(admin_emails)
    /\ \E e \in [1..3 -> DupeEmails], t \in [1..3 -> {0, 1}] :
          users = {UserDoc(i, None, sUser, e[i], None, None, None, None, t[i]) : i \in 1..3}
    /\ conversations = <<>>
    /\ messages = <<>>
    /\ nextId = 4
    /\ clock = 2
    /\ last = NoRequest
    /\ pUser = NoUser
    /\ pConvo = <<>>
    /\ pOut = NotEvaluated
    /\ reqs = <<>>
    /\ pending_users = {}

SpecDedupe == InitDedupe /\ [][NextResolve]_vars

\* the record's email is the admin email e but for case and surrounding whitespace
SameEmail(u, e) == IsStr(u.email) /\ Lower(Strip(u.email)) = Lower(Strip(e))

\* C32: when several stored records match a configured admin email ignoring case and
\* surrounding whitespace, one _get_admin_users call leaves exactly one of them, an
\* earliest-created one, with is_admin set and its email normalised and nothing else
\* changed; the others are deleted, and every record of another email stays as it was.
C32_KeepsEarliest ==
    \A j \in 1..Len(settings.admin_emails) :
        LET e == settings.admin_emails[j]
            dupes == {u \in users : SameEmail(u, e)}
        IN  Cardinality(dupes) >= 2 =>
                \A r \in _get_admin_users(users, nextId, clock) :
                    LET left == {u \in r.users : SameEmail(u, e)}
                    IN  /\ Cardinality(left) = 1
                        /\ \A k \in left :
                               \E d \in dupes :
                                   /\ \A o \in dupes : d.created_at <= o.created_at
                                   /\ k = [d EXCEPT !.is_admin = PyTrue,
                                                    !.email = Lower(Strip(e))]
                        /\ r.users \ left = users \ dupes

\* the admin ids were resolved: of three stored records one remains with the admin
\* email, created at 0, flagged, next to an untouched record of the other address
C32_Witness ==
    /\ pOut.evaluated
    /\ Cardinality(users) = 2
    /\ \E k \in users, u \in users :
           /\ k.email = <<"m", "@", "x">> /\ k.is_admin = PyTrue /\ k.created_at = 0
           /\ u.email = <<"p", "@", "x">> /\ u.is_admin = None

-----------------------------------------------------------------------------
(* Accounts: doctor signup, OTP verification, approval *)

\* doc.get(field): None for a field the document does not carry
Get(doc, field) == IF field \in DOMAIN doc THEN doc[field] ELSE None

\* _normalize_email
_normalize_email(email) == Lower(Strip(email))

\* hash_otp: the HMAC of the code under the secret key, one digest per code
hash_otp(otp) == <<"hmac">> \o otp

\* verify_otp: the digest of the code entered against the stored one
verify_otp(otp, otp_hash) == hash_otp(otp) = otp_hash

\* settings.otp_expiry_minutes, in clock ticks
otp_expiry_minutes == 1

\* the codes generate_otp draws, and the codes a request can carry
OtpCodes == {<<"1">>}

OtpInputs == OtpCodes \cup {<<"2">>}

\* a document of db.pending_users, as doctor_signup stores it
PendingDoc(id, email, is_admin, otp_hash, otp_expires_at, created_at) ==
    [_id |-> id, email |-> email, role |-> sDoctor, is_admin |-> is_admin,
     otp_hash |-> otp_hash, otp_expires_at |-> otp_expires_at,
     doctor_verification_status |-> sPending, created_at |-> created_at]

\* {"$set": fields} on a document: the fields are written or added
SetFields(doc, fields) ==
    [f \in DOMAIN doc \cup DOMAIN fields |-> IF f \in DOMAIN fields THEN fields[f] ELSE doc[f]]

\* {"$unset": names} on a document
UnsetFields(doc, names) == [f \in DOMAIN doc \ names |-> doc[f]]

\* a user document with its is_otp_verified flag; otp_hash, otp_expires_at and
\* pending_email are carried only while an OTP is in flight
AccountDoc(u, is_otp_verified) == SetFields(u, [is_otp_verified |-> is_otp_verified])

\* find_one({field: value}) on a collection: any one matching document, or none
FindOneBy(docs, field, value) ==
    IF \E x \in docs : Get(x, field) = value
    THEN {x \in docs : Get(x, field) = value}
    ELSE {NoUser}

\* normalized_email in settings.admin_emails: the list as configured
InAdminEmailList(normalized_email) ==
    IF \E i \in 1..Len(settings.admin_emails) : settings.admin_emails[i] = normalized_email
    THEN PyTrue ELSE PyFalse

\* an outcome of a handler that may write db.pending_users
AuthOutcome(d, pu, resp) == [db |-> d, pending |-> pu, resp |-> resp]

\* POST /doctor-signup with valid form fields and photos and a phone number of its
\* own: the pending record of the email is stored or overwritten
doctor_signup(d, pu, email, now) ==
    LET normalized_email == _normalize_email(email)
    IN  UNION {
          UNION {
            IF existing # NoUser
            THEN {AuthOutcome(d, pu, Resp(400, "", NoId,
                                          "An account with this email already exists.", <<>>))}
            ELSE {AuthOutcome(
                      [d EXCEPT !.nextId = IF pending = NoUser THEN @ + 1 ELSE @],
                      (pu \ {pending}) \cup
                          {PendingDoc(IF pending = NoUser THEN d.nextId ELSE pending._id,
                                      normalized_email, InAdminEmailList(normalized_email),
                                      hash_otp(otp), now + otp_expiry_minutes, now)},
                      Resp(200, "", NoId, "", <<>>)) : otp \in OtpCodes}
            : pending \in FindOneBy(pu, "email", normalized_email)}
          : existing \in FindOneBy(d.users, "email", normalized_email)}

\* the user document verify_otp_handler inserts for a pending signup
UserFromPending(id, target_user) ==
    AccountDoc(UserDoc(id, Get(target_user, "is_admin"), target_user.role,
                       target_user.email, Get(target_user, "doctor_verification_status"),
                       None, None, None, target_user.created_at),
               PyTrue)

\* the checks of verify_otp_handler on the record it found: "" when the code passes
OtpError(target_user, otp, now) ==
    IF "otp_hash" \notin DOMAIN target_user \/ "otp_expires_at" \notin DOMAIN target_user
    THEN "OTP not found. Please request a new one."
    ELSE IF now > target_user.otp_expires_at THEN "OTP expired. Please sign up again."
    ELSE IF ~verify_otp(Strip(otp), target_user.otp_hash) THEN "Incorrect OTP. Try again."
    ELSE ""

\* what verify_otp_handler writes for a record of db.users: the OTP fields are
\* unset, and a pending email that is the one verified becomes the email
VerifyStoredUser(target_user, normalized_email) ==
    LET pending_email == Get(target_user, "pending_email")
        verified == UnsetFields(SetFields(target_user, [is_otp_verified |-> PyTrue]),
                                {"otp_hash", "otp_expires_at"})
    IN  IF Truthy(pending_email) /\ pending_email = normalized_email
        THEN UnsetFields(SetFields(verified, [email |-> normalized_email]), {"pending_email"})
        ELSE verified

\* POST /verify-otp, the handler as a whole
verify_otp_handler(d, pu, email, otp, now) ==
    LET normalized_email == _normalize_email(email)
    IN  UNION {
          UNION {
            UNION {
              LET target_user == IF pending_user # NoUser THEN pending_user
                                 ELSE IF pending_email_user # NoUser THEN pending_email_user
                                 ELSE user
                  err == OtpError(target_user, otp, now)
              IN  IF target_user = NoUser
                  THEN {AuthOutcome(d, pu, Resp(404, "", NoId,
                                                "Account not found. Please sign up again.", <<>>))}
                  ELSE IF err # "" THEN {AuthOutcome(d, pu, Resp(400, "", NoId, err, <<>>))}
                  ELSE IF pending_user # NoUser
                  THEN {AuthOutcome([d EXCEPT !.users = @ \cup {UserFromPending(d.nextId, target_user)},
                                              !.nextId = @ + 1],
                                    pu \ {target_user},
                                    Redirect("/profile?pending_verification=1", NoId))}
                  ELSE {AuthOutcome([d EXCEPT !.users = (@ \ {target_user}) \cup
                                                 {VerifyStoredUser(target_user, normalized_email)}],
                                    pu,
                                    Redirect(IF target_user.role = sDoctor
                                                /\ target_user.doctor_verification_status # sVerified
                                             THEN "/profile?pending_verification=1"
                                             ELSE "/profile", NoId))}
              : user \in FindOneBy(d.users, "email", normalized_email)}
            : pending_email_user \in FindOneBy(d.users, "pending_email", normalized_email)}
          : pending_user \in FindOneBy(pu, "email", normalized_email)}

\* POST /signup with valid form fields and a phone number of its own: the patient's
\* record is inserted, or the unverified record of that email is overwritten
signup(d, pu, email, now) ==
    LET normalized_email == _normalize_email(email)
    IN  UNION {
          UNION {
            IF pending # NoUser \/ (existing # NoUser /\ Truthy(Get(existing, "is_otp_verified")))
            THEN {AuthOutcome(d, pu, Resp(400, "", NoId,
                                          "An account with this email already exists.", <<>>))}
            ELSE IF existing # NoUser
            THEN {AuthOutcome(
                      [d EXCEPT !.users = (@ \ {existing}) \cup
                          {SetFields(existing,
                               [role |-> sUser,
                                is_admin |-> InAdminEmailList(normalized_email),
                                is_otp_verified |-> PyFalse,
                                doctor_verification_status |-> None,
                                otp_hash |-> hash_otp(otp),
                                otp_expires_at |-> now + otp_expiry_minutes])}],
                      pu, Resp(200, "", NoId, "", <<>>)) : otp \in OtpCodes}
            ELSE {AuthOutcome(
                      [d EXCEPT !.users = @ \cup
                          {SetFields(AccountDoc(UserDoc(d.nextId,
                                                        InAdminEmailList(normalized_email),
                                                        sUser, normalized_email, None, None,
                                                        None, None, now),
                                                PyFalse),
                                     [otp_hash |-> hash_otp(otp),
                                      otp_expires_at |-> now + otp_expiry_minutes])},
                                !.nextId = @ + 1],
                      pu, Resp(200, "", NoId, "", <<>>)) : otp \in OtpCodes}
            : pending \in FindOneBy(pu, "email", normalized_email)}
          : existing \in FindOneBy(d.users, "email", normalized_email)}

\* POST /update-profile with valid names, phone, city and PIN: a new email is kept as
\* pending_email with a fresh OTP; the names are not modelled
update_profile(d, uid, email, now) ==
    LET user == get_user_from_request(d.users, uid)
        normalized_email == _normalize_email(email)
        current_email == Lower(Strip(PyOr(user.email, sEmpty)))
    IN  IF user = NoUser THEN {[db |-> d, resp |-> Redirect("/login", NoId)]}
        ELSE IF normalized_email = current_email
        THEN {[db |-> d, resp |-> Redirect("/profile?profile_updated=1", NoId)]}
        ELSE UNION {
               IF existing # NoUser /\ existing._id # user._id
               THEN {[db |-> d, resp |-> Redirect("/profile?profile_error=1", NoId)]}
               ELSE {[db |-> [d EXCEPT !.users = (@ \ {user}) \cup
                                 {SetFields(user,
                                      [pending_email |-> normalized_email,
                                       otp_hash |-> hash_otp(otp),
                                       otp_expires_at |-> now + otp_expiry_minutes])}],
                      resp |-> Resp(200, "", NoId, "", <<>>)] : otp \in OtpCodes}
               : existing \in FindOneBy(d.users, "email", normalized_email)}

\* faulty variant: any signed-in requester may approve
IsAdminFlag_any(user) == TRUE

\* user.get("is_admin") as approve_doctor and reject_doctor test it
IsAdminFlag(user) == Truthy(Get(user, "is_admin"))

\* POST /admin/approve-doctor and /admin/reject-doctor, which differ in the status
\* they set. The error answers are the tuples the handler returns, sent with status
\* 200.
SetDoctorStatus(d, uid, user_id, new_status, done) ==
    LET user == get_user_from_request(d.users, uid)
        target == FindUser(d.users, user_id)
    IN  IF user = NoUser \/ ~IsAdminFlag(user)
        THEN {[db |-> d, resp |-> Resp(200, "", NoId, "Unauthorized", <<>>)]}
        ELSE IF user_id = NoId
        THEN {[db |-> d, resp |-> Resp(200, "", NoId, "Missing user_id", <<>>)]}
        ELSE IF user_id = Malformed
        THEN {[db |-> d, resp |-> Resp(200, "", NoId, "Invalid user ID", <<>>)]}
        ELSE IF target = NoUser \/ target.doctor_verification_status = new_status
        THEN {[db |-> d, resp |-> Resp(200, "", NoId, "Doctor not found", <<>>)]}
        ELSE {[db |-> [d EXCEPT !.users = (@ \ {target}) \cup
                          {[target EXCEPT !.doctor_verification_status = new_status]}],
               resp |-> Resp(200, done, NoId, "", <<>>)]}

approve_doctor(d, uid, user_id) == SetDoctorStatus(d, uid, user_id, sVerified, "approved")

reject_doctor(d, uid, user_id) == SetDoctorStatus(d, uid, user_id, sRejected, "rejected")

\* accounts stored in the run, in db.users and db.pending_users, and earlier accounts
\* with an OTP in flight or an email changed in the run
NewAccounts(us, pu) ==
    Cardinality({x \in us \cup pu : x.created_at >= 1})
        + Cardinality({x \in us : /\ x.created_at = 0
                                  /\ \/ "otp_hash" \in DOMAIN x
                                     \/ \E r \in Roster : r._id = x._id /\ r.email # x.email})

\* the outcome o of a handler of the OTP flow becomes the state
CommitAuth(o) ==
    /\ Work(o.db, clock) + NewAccounts(o.db.users, o.pending) <= MaxWork
    /\ users' = o.db.users
    /\ conversations' = o.db.conversations
    /\ messages' = o.db.messages
    /\ nextId' = o.db.nextId
    /\ pending_users' = o.pending
    /\ last' = [status |-> o.resp.status, location |-> o.resp.location,
                error |-> o.resp.error]
    /\ UNCHANGED <<clock, settings, pUser, pConvo, pOut, reqs>>

\* emails entered in the forms: the stored doctor's, a new one as typed, and those of
\* the signups awaiting their OTP
EmailInputs ==
    {<<"d", "@", "x">>, <<" ", "N", "@", "X">>} \cup {p.email : p \in pending_users}

\* ids an approve or reject request names: the stored doctors, an id not stored, a
\* malformed one and none
TargetIds == {u._id : u \in {x \in users : x.role = sDoctor}} \cup {nextId, Malformed, NoId}

Signup ==
    \E email \in EmailInputs :
        \E o \in signup(DB, pending_users, email, clock) :
            CommitAuth(o)

DoctorSignup ==
    \E email \in EmailInputs :
        \E o \in doctor_signup(DB, pending_users, email, clock) :
            CommitAuth(o)

VerifyOtp ==
    \E email \in EmailInputs, otp \in OtpInputs :
        \E o \in verify_otp_handler(DB, pending_users, email, otp, clock) :
            CommitAuth(o)

UpdateProfile ==
    \E uid \in Requesters, email \in EmailInputs :
        \E o \in update_profile(DB, uid, email, clock) :
            CommitAuth(AuthOutcome(o.db, pending_users, o.resp))

ApproveDoctor ==
    \E uid \in Requesters, user_id \in TargetIds :
        \E o \in approve_doctor(DB, uid, user_id) :
            Commit(o)

RejectDoctor ==
    \E uid \in Requesters, user_id \in TargetIds :
        \E o \in reject_doctor(DB, uid, user_id) :
            Commit(o)

\* a stored account that has completed its OTP verification
Verified(u) == AccountDoc(u, PyTrue)

\* the doctor (verified or pending) and the admin, both OTP-verified; no signup in
\* flight
InitAccounts ==
    /\ settings = Settings(<<>>)
    /\ users \in {{Verified(u) : u \in {x \in Roster : x._id = 4} \cup {doctor}} :
                     doctor \in {PendingDoctor} \cup {x \in Roster : x._id = 2}}
    /\ conversations = <<>>
    /\ messages = <<>>
    /\ nextId = 6
    /\ clock = 1
    /\ last = NoRequest
    /\ pUser = NoUser
    /\ pConvo = <<>>
    /\ pOut = NotEvaluated
    /\ reqs = <<>>
    /\ pending_users = {}

NextAccounts ==
    \/ Tick
    \/ Signup
    \/ DoctorSignup
    \/ VerifyOtp
    \/ UpdateProfile
    \/ UpdateDoctorDocuments
    \/ ApproveDoctor
    \/ RejectDoctor

SpecAccounts == InitAccounts /\ [][NextAccounts]_vars

\* the users of the store d whose doctor_verification_status is "verified" and was
\* not before
NewlyVerified(d) ==
    {u \in d.users :
        /\ u.doctor_verification_status = sVerified
        /\ ~\E v \in users : v._id = u._id /\ v.doctor_verification_status = sVerified}

-----------------------------------------------------------------------------
(* The admin conversation when the admin identities change *)

\* the patient, with or without the admin account, the admin email configured and not
\* yet reconciled, and a doctor signup with that email awaiting its OTP
InitRoster ==
    /\ settings = Settings(admin_emails)
    /\ users \in {{Verified(u) : u \in {x \in Roster : x._id \in S}} : S \in {{1}, {1, 4}}}
    /\ pending_users = {PendingDoc(5, <<"m", "@", "x">>, PyFalse, hash_otp(<<"1">>), 2, 0)}
    /\ conversations = <<>>
    /\ messages = <<>>
    /\ nextId = 6
    /\ clock = 1
    /\ last = NoRequest
    /\ pUser = NoUser
    /\ pConvo = <<>>
    /\ pOut = NotEvaluated
    /\ reqs = <<>>

NextRoster ==
    \/ Tick
    \/ StartAdminMessage
    \/ VerifyOtp
    \/ ApiSendMessage

SpecRoster == InitRoster /\ [][NextRoster]_vars

\* C33: a start-admin request resolves to a conversation of exactly the requester and
\* the admin ids as they are then, stored by this request if no stored conversation
\* has that set; every conversation stored before, with its participants, and every
\* message are left as they were, also when the admin ids have changed since the
\* requester's earlier admin conversation was stored.
C33_KeyedOnCurrentAdmins ==
    \A uid \in Requesters \ {NoSession} :
        \A o \in start_admin_message(DB, uid, clock) :
            o.resp.thread # NoId =>
                /\ \E i \in 1..Len(o.db.conversations) :
                       /\ o.db.conversations[i]._id = o.resp.thread
                       /\ Range(o.db.conversations[i].participants)
                              = {uid} \cup AdminIdsOf(o.db.users)
                       /\ i > Len(conversations) =>
                              ~\E k \in 1..Len(conversations) :
                                   Range(conversations[k].participants)
                                       = {uid} \cup AdminIdsOf(o.db.users)
                /\ Len(o.db.conversations) \in {Len(conversations), Len(conversations) + 1}
                /\ \A i \in 1..Len(conversations) : o.db.conversations[i] = conversations[i]
                /\ o.db.messages = messages

\* the patient has two admin conversations, the earlier one keyed on an admin id that
\* is no longer stored and still holding its participants, the later one keyed on the
\* admin ids as they are now
C33_Witness ==
    \E i \in 1..Len(conversations), k \in 1..Len(conversations) :
        /\ i < k
        /\ 1 \in Range(conversations[i].participants)
        /\ \E a \in Range(conversations[i].participants) : a \notin {u._id : u \in users}
        /\ Range(conversations[k].participants) = {1} \cup AdminIdsOf(users)

-----------------------------------------------------------------------------
(* Messages and read marks belong to participants *)

\* C34: in every reachable state the conversation named by each stored message
\* exists and has the message's sender among its participants, and every key of a
\* conversation's last_read_at map is one of its participants.
C34_SendersAndReadersParticipate ==
    /\ \A k \in 1..Len(messages) :
           \E i \in 1..Len(conversations) :
               /\ conversations[i]._id = messages[k].conversation_id
               /\ messages[k].sender_id \in Range(conversations[i].participants)
    /\ \A i \in 1..Len(conversations) :
           DOMAIN conversations[i].last_read_at \subseteq Range(conversations[i].participants)

\* a message sent in the run and a read mark written in the run are stored
C34_Witness ==
    /\ \E k \in 1..Len(messages) : messages[k].created_at >= 1
    /\ \E i \in 1..Len(conversations) :
           \E u \in DOMAIN conversations[i].last_read_at :
               conversations[i].last_read_at[u] >= 1

-----------------------------------------------------------------------------
(* Concurrent sends on one conversation, and a client polling it: every await of
   api_send_message is a point where another request may run *)

\* a send in flight: the sender, the conversation, the text, the await it stands at
\* and its local now
SendRequest(user_id, thread_id, text) ==
    [handler |-> "api_send_message", user_id |-> user_id, thread |-> thread_id,
     text |-> text, pc |-> "begin", now |-> 0, after |-> NoAfter, received |-> <<>>]

\* the client of a participant: the messages it has received and the after parameter
\* of its next poll, the created_at of the last of them
PollingClient(user_id, thread_id) ==
    [handler |-> "api_messages_since", user_id |-> user_id, thread |-> thread_id,
     text |-> <<>>, pc |-> "poll", now |-> 0, after |-> NoAfter, received |-> <<>>]

Senders == {k \in 1..Len(reqs) : reqs[k].handler = "api_send_message"}

\* The patient and the doctor hold a conversation with one earlier message; two
\* sends by participants are in flight and the client of a participant polls.
InitSendRace ==
    /\ settings = Settings(<<>>)
    /\ users = {u \in Roster : u._id # 3}
    /\ conversations = <<SeededConversation(PairThread, <<1, 2>>, <<>>)>>
    /\ messages = <<SeededMessage(PairThread, 2, <<"h", "i">>)>>
    /\ nextId = 8
    /\ clock = 1
    /\ last = NoRequest
    /\ pUser = NoUser
    /\ pConvo = <<>>
    /\ pOut = NotEvaluated
    /\ reqs \in {<<SendRequest(u1, PairThread, <<"a">>),
                   SendRequest(u2, PairThread, <<" ", "b">>),
                   PollingClient(p, PairThread)>> : u1 \in {1, 2}, u2 \in {1, 2}, p \in {1, 2}}
    /\ pending_users = {}

\* api_send_message up to now = datetime.utcnow(): the session, the text, the
\* conversation lookup and the access check
SendTakeNow ==
    \E k \in Senders :
        LET r == reqs[k]
            user == get_user_from_request(users, r.user_id)
            message == MessageText(r.text)
            found == FindConversation(conversations, r.thread, r.user_id)
            refused ==
                \/ user = NoUser
                \/ ~Truthy(message)
                \/ found = {}
                \/ \E i \in found : \E g \in AccessGate(DB, user, conversations[i], clock) :
                       g.denied
        IN  /\ r.pc = "begin"
            /\ reqs' = [reqs EXCEPT ![k] =
                          IF refused THEN Done(r, r.thread)
                          ELSE [r EXCEPT !.pc = "insert", !.text = message, !.now = clock]]
            /\ UNCHANGED <<users, conversations, messages, nextId, clock, last, settings,
                           pUser, pConvo, pOut, pending_users>>

\* await db.messages.insert_one({..., "created_at": now})
SendInsert ==
    \E k \in Senders :
        LET r == reqs[k] IN
        /\ r.pc = "insert"
        /\ messages' = Append(messages,
                              [conversation_id |-> r.thread, sender_id |-> r.user_id,
                               ciphertext |-> _encrypt_text(r.text), created_at |-> r.now])
        /\ reqs' = [reqs EXCEPT ![k].pc = "update"]
        /\ UNCHANGED <<users, conversations, nextId, clock, last, settings,
                       pUser, pConvo, pOut, pending_users>>

\* await db.conversations.update_one({"_id": convo_oid}, {"$set": {"updated_at": now}})
SendUpdate ==
    \E k \in Senders :
        LET r == reqs[k] IN
        /\ r.pc = "update"
        /\ conversations' = SetUpdatedAt(conversations, r.thread, r.now)
        /\ reqs' = [reqs EXCEPT ![k] = Done(r, r.thread)]
        /\ UNCHANGED <<users, messages, nextId, clock, last, settings,
                       pUser, pConvo, pOut, pending_users>>

\* the time advances while requests are in flight
RaceTick ==
    /\ clock < MaxWork
    /\ clock' = clock + 1
    /\ UNCHANGED <<users, conversations, messages, nextId, last, settings, pUser, pConvo,
                   pOut, reqs, pending_users>>

\* GET /api/messages/{thread_id}/since?after=<created_at of the last message
\* received>; the client appends what the answer carries
Poll ==
    \E k \in 1..Len(reqs) :
        LET c == reqs[k] IN
        /\ c.handler = "api_messages_since"
        /\ \E o \in api_messages_since(DB, c.user_id, c.thread, c.after, clock) :
              LET got == o.resp.messages IN
              /\ o.resp.status = 200
              /\ got # <<>>
              /\ reqs' = [reqs EXCEPT ![k].received = @ \o got,
                                      ![k].after = got[Len(got)].created_at]
        /\ UNCHANGED <<users, conversations, messages, nextId, clock, last, settings,
                       pUser, pConvo, pOut, pending_users>>

NextSendRace ==
    \/ RaceTick
    \/ SendTakeNow
    \/ SendInsert
    \/ SendUpdate
    \/ Poll

SpecSendRace == InitSendRace /\ [][NextSendRace]_vars

AllSent == \A k \in Senders : reqs[k].pc = "done"

\* the greatest created_at among the messages of the conversation convo_oid
LatestCreatedAt(ms, convo_oid) ==
    LET times == {ms[k].created_at : k \in MessagesOf(ms, convo_oid)}
    IN  CHOOSE t \in times : \A x \in times : x <= t

\* C35 as stated: under every interleaving of the concurrent sends on a conversation,
\* once all of them have completed the conversation's updated_at equals the greatest
\* created_at among its messages, and updated_at never decreases.
C35_AsStated ==
    /\ [](AllSent => \A i \in 1..Len(conversations) :
                         conversations[i].updated_at =
                             LatestCreatedAt(messages, conversations[i]._id))
    /\ [][\A i \in 1..Len(conversations) :
              conversations'[i].updated_at >= conversations[i].updated_at]_vars

\* how often the value v occurs in the sequence s
Occurrences(s, v) == Cardinality({i \in 1..Len(s) : s[i] = v})

\* the client has nothing more to receive: its next poll answers no message
PollAnswersNothing(c) == MessageView(messages, c.thread, c.after, c.user_id) = <<>>

\* C36 as stated: a client that polls /since with after set to the created_at of the
\* last message it received ends up with every message of the conversation exactly
\* once, whatever the interleaving with the concurrent sends; when every send has
\* completed and a further poll answers nothing, nothing is missing.
C36_AsStated ==
    \A k \in 1..Len(reqs) :
        LET c == reqs[k]
            stored == MessageView(messages, c.thread, NoAfter, c.user_id)
        IN  (c.handler = "api_messages_since" /\ AllSent /\ PollAnswersNothing(c)) =>
                \A i \in 1..Len(stored) :
                    Occurrences(c.received, stored[i]) = Occurrences(stored, stored[i])

-----------------------------------------------------------------------------
(* Who may open a conversation with whom *)

\* what may be stored under the id of the first doctor: a verified doctor, one still
\* pending, a verified one flagged restricted, one whose status is spelled
\* " Verified", an account with role "Doctor", and a plain user
Counterparts ==
    {UserDoc(2, PyFalse, sDoctor, <<"d", "@", "x">>, dvs, None, None, restricted, 0) :
        dvs \in {sVerified, sPending, <<" ", "V", "e", "r", "i", "f", "i", "e", "d">>},
        restricted \in {None, PyTrue}}
      \cup {UserDoc(2, PyFalse, role, <<"d", "@", "x">>, sVerified, None, None, None, 0) :
               role \in {sUser, <<"D", "o", "c", "t", "o", "r">>}}

\* The patient, flagged restricted or not, a second verified doctor and the admin,
\* with any of the counterparts; no conversation yet, no admin mailbox configured.
InitStart ==
    /\ settings = Settings(<<>>)
    /\ \E counterpart \in Counterparts, restricted \in {None, PyTrue} :
          users = {u \in Roster : u._id \in {3, 4}}
                      \cup {counterpart,
                            UserDoc(1, PyFalse, sUser, <<"p", "@", "x">>, None, None, None,
                                    restricted, 0)}
    /\ conversations = <<>>
    /\ messages = <<>>
    /\ nextId = Cardinality(Roster) + 1
    /\ clock = 1
    /\ last = NoRequest
    /\ pUser = NoUser
    /\ pConvo = <<>>
    /\ pOut = NotEvaluated
    /\ reqs = <<>>
    /\ pending_users = {}

NextStart ==
    \/ Tick
    \/ StartMessage
    \/ UpdateDoctorDocuments

SpecStart == InitStart /\ [][NextStart]_vars

\* doctor_id names a stored user with role "doctor" that the requester may address:
\* any such doctor for an admin, a verified one not flagged restricted otherwise
Addressable(user, doctor_id) ==
    \E doctor \in users :
        /\ doctor._id = doctor_id
        /\ doctor.role = sDoctor
        /\ \/ _is_admin_user(user)
           \/ /\ doctor.doctor_verification_status = sVerified
              /\ ~Truthy(doctor.restricted)

\* C37: whenever start_message stores a conversation, the requester is not messaging
\* restricted and the id names a stored user with role "doctor" who, unless the
\* requester is an admin, is verified and not flagged restricted; a request toward a
\* missing, malformed or non-doctor id, or by a non-admin toward an unverified or
\* restricted doctor, stores nothing.
C37_StartOnlyTowardAddressableDoctor ==
    \A uid \in Requesters, doctor_id \in DoctorIds :
        \A o \in start_message(DB, uid, doctor_id, clock) :
            LET user == get_user_from_request(users, uid)
                created == o.db.conversations # conversations
            IN  /\ created =>
                       /\ ~_is_messaging_restricted(user)
                       /\ Addressable(user, doctor_id)
                       /\ o.db.conversations =
                              Append(conversations,
                                     NewConversation(nextId,
                                                     Sorted(<<uid, doctor_id>>), clock))
                /\ ~Addressable(user, doctor_id) => o.db = DB

\* the patient has opened a conversation with the verified doctor 3, and the admin
\* one with doctor 2, who is not verified or is flagged restricted
C37_Witness ==
    /\ \E i \in 1..Len(conversations) :
          conversations[i].participants = <<1, 3>> /\ conversations[i].created_at >= 1
    /\ \E i \in 1..Len(conversations) :
          conversations[i].participants = <<2, 4>> /\ conversations[i].created_at >= 1
    /\ \E doctor \in users :
          /\ doctor._id = 2
          /\ doctor.role = sDoctor
          /\ doctor.doctor_verification_status # sVerified \/ Truthy(doctor.restricted)

-----------------------------------------------------------------------------
(* A verified doctor uploads a new degree document *)

\* The patient, the admin and the verified doctor, who carries the admin flag or not;
\* the doctor's conversations with the patient and with the admin are stored.
InitReverify ==
    /\ settings = Settings(<<>>)
    /\ \E is_admin \in {PyFalse, PyTrue} :
          users = {u \in Roster : u._id \in {1, 4}}
                      \cup {UserDoc(2, is_admin, sDoctor, <<"d", "@", "x">>, sVerified,
                                    None, None, None, 0)}
    /\ conversations = <<SeededConversation(PairThread, <<1, 2>>, <<>>),
                         SeededConversation(AdminThread, <<2, 4>>, <<>>)>>
    /\ messages = <<SeededMessage(PairThread, 1, <<"h", "i">>),
                    SeededMessage(AdminThread, 4, <<"o", "k">>)>>
    /\ nextId = 8
    /\ clock = 1
    /\ last = NoRequest
    /\ pUser = NoUser
    /\ pConvo = <<>>
    /\ pOut = NotEvaluated
    /\ reqs = <<>>
    /\ pending_users = {}

NextReverify ==
    \/ Tick
    \/ UpdateDoctorDocuments
    \/ ApproveDoctor
    \/ RejectDoctor
    \/ ApiSendMessage
    \/ ApiMarkRead

SpecReverify == InitReverify /\ [][NextReverify]_vars

\* an upload by a verified doctor sets the status to "pending" when it carries a
\* degree document and leaves it alone when it carries none
UploadResetsStatus ==
    \A uid \in Requesters, degree \in BOOLEAN, other \in BOOLEAN :
        LET user == get_user_from_request(users, uid) IN
        (user # NoUser /\ user.role = sDoctor) =>
            \A o \in update_doctor_documents(DB, uid, degree, other) :
                LET after == FindUser(o.db.users, uid)
                IN  /\ o.db.users \ {after} = users \ {user}
                    /\ after = [user EXCEPT !.doctor_verification_status =
                                   IF degree /\ @ = sVerified THEN sPending ELSE @]

\* the doctor uid awaits approval, and thread_id is a conversation of theirs with a
\* participant who is not an admin
AwaitingApproval(uid, thread_id) ==
    LET user == get_user_from_request(users, uid)
    IN  /\ user # NoUser
        /\ user.role = sDoctor
        /\ user.doctor_verification_status # sVerified
        /\ \E i \in FindConversation(conversations, thread_id, uid) :
              Range(conversations[i].participants) \ ({uid} \cup AdminIdsOf(users)) # {}

\* view, poll, send and mark-read of uid on thread_id are all refused
AllRefused(uid, thread_id) ==
    /\ \A o \in message_thread(DB, uid, thread_id, clock) : RefusedUntouched(o)
    /\ \A o \in api_mark_read(DB, uid, thread_id, clock) : RefusedUntouched(o)
    /\ \A after \in AfterValues(clock) :
          \A o \in api_messages_since(DB, uid, thread_id, after, clock) : RefusedUntouched(o)
    /\ \A o \in api_send_message(DB, uid, thread_id, <<" ", "h", "i", " ">>, clock) :
          RefusedUntouched(o)

\* C39 as stated: a degree upload sets a verified doctor's status to "pending", an
\* upload without a degree document leaves it unchanged, and while the status is not
\* "verified" every view, poll, send and mark-read of that doctor on a conversation
\* with a non-admin participant is refused.
C39_AsStated ==
    /\ UploadResetsStatus
    /\ \A uid \in Requesters, thread_id \in ThreadIds :
          AwaitingApproval(uid, thread_id) => AllRefused(uid, thread_id)

\* C39, amended: the same for a doctor who is not an admin; a doctor who carries the
\* admin flag is never messaging restricted.
C39_ReverifyLocksOut ==
    /\ UploadResetsStatus
    /\ \A uid \in Requesters, thread_id \in ThreadIds :
          (AwaitingApproval(uid, thread_id)
              /\ ~_is_admin_user(get_user_from_request(users, uid))) =>
                 AllRefused(uid, thread_id)

\* the doctor, not an admin, sent a message to the patient while verified, is back to
\* "pending" after the upload, and has just been refused
C39_Witness ==
    /\ \E u \in users :
          /\ u._id = 2
          /\ ~_is_admin_user(u)
          /\ u.doctor_verification_status = sPending
    /\ \E k \in 1..Len(messages) :
          /\ messages[k].conversation_id = PairThread
          /\ messages[k].sender_id = 2
          /\ messages[k].created_at >= 1
    /\ last.status = 403
    /\ last.error = _restricted_access_error

-----------------------------------------------------------------------------
(* Concurrent OTP verifications of one pending doctor signup: every await of
   verify_otp_handler is a point where another request may run *)

\* a verification in flight: the form fields, the await it stands at, the record it
\* read and the status it answered
VerifyRequest(email, otp) ==
    [handler |-> "verify_otp_handler", email |-> email, otp |-> otp, pc |-> "begin",
     target_user |-> NoUser, status |-> 0]

\* The admin is stored and a doctor signup of d@x awaits its OTP, which expires at
\* time 1; two verifications of that email are in flight.
InitOtpRace ==
    /\ settings = Settings(<<>>)
    /\ users = {Verified(u) : u \in {x \in Roster : x._id = 4}}
    /\ pending_users = {PendingDoc(5, <<"d", "@", "x">>, PyFalse, hash_otp(<<"1">>),
                                   otp_expiry_minutes, 0)}
    /\ conversations = <<>>
    /\ messages = <<>>
    /\ nextId = 6
    /\ clock = 1
    /\ last = NoRequest
    /\ pUser = NoUser
    /\ pConvo = <<>>
    /\ pOut = NotEvaluated
    /\ reqs \in {<<VerifyRequest(e1, o1), VerifyRequest(e2, o2)>> :
                    e1 \in {<<"d", "@", "x">>, <<" ", "D", "@", "X">>},
                    e2 \in {<<"d", "@", "x">>}, o1 \in OtpInputs, o2 \in OtpInputs}

\* verify_otp_handler up to its writes: the three lookups and the checks of the code.
\* A record of db.users is updated by the one update_one; for a pending signup the
\* insert and the delete follow as steps of their own.
VerifyRead ==
    \E k \in 1..Len(reqs) :
        LET r == reqs[k]
            normalized_email == _normalize_email(r.email)
        IN  /\ r.pc = "begin"
            /\ \E pending_user \in FindOneBy(pending_users, "email", normalized_email) :
                  IF pending_user # NoUser /\ OtpError(pending_user, r.otp, clock) = ""
                  THEN /\ reqs' = [reqs EXCEPT ![k].pc = "insert",
                                               ![k].target_user = pending_user]
                       /\ UNCHANGED <<users, nextId>>
                  ELSE \E o \in verify_otp_handler(DB, pending_users, r.email, r.otp, clock) :
                          /\ users' = o.db.users
                          /\ nextId' = o.db.nextId
                          /\ reqs' = [reqs EXCEPT ![k].pc = "done",
                                                  ![k].status = o.resp.status]
            /\ UNCHANGED <<conversations, messages, clock, last, settings, pUser, pConvo,
                           pOut, pending_users>>

\* result = await db.users.insert_one(user_doc)
VerifyInsert ==
    \E k \in 1..Len(reqs) :
        LET r == reqs[k] IN
        /\ r.pc = "insert"
        /\ users' = users \cup {UserFromPending(nextId, r.target_user)}
        /\ nextId' = nextId + 1
        /\ reqs' = [reqs EXCEPT ![k].pc = "delete"]
        /\ UNCHANGED <<conversations, messages, clock, last, settings, pUser, pConvo,
                       pOut, pending_users>>

\* await db.pending_users.delete_one({"_id": target_user["_id"]}), and the redirect
\* to the profile
VerifyDelete ==
    \E k \in 1..Len(reqs) :
        LET r == reqs[k] IN
        /\ r.pc = "delete"
        /\ pending_users' = {p \in pending_users : p._id # r.target_user._id}
        /\ reqs' = [reqs EXCEPT ![k].pc = "done", ![k].status = 303]
        /\ UNCHANGED <<users, conversations, messages, nextId, clock, last, settings,
                       pUser, pConvo, pOut>>

NextOtpRace ==
    \/ RaceTick
    \/ VerifyRead
    \/ VerifyInsert
    \/ VerifyDelete

SpecOtpRace == InitOtpRace /\ [][NextOtpRace]_vars

\* C40 as stated: under every interleaving of the verify-otp requests for the pending
\* doctor signup, once all of them have completed and one of them succeeded, exactly
\* one user record holds the email, the pending record is removed, and no second
\* request succeeded.
C40_AsStated ==
    LET succeeded == {k \in 1..Len(reqs) : reqs[k].status = 303}
    IN  ((\A k \in 1..Len(reqs) : reqs[k].pc = "done") /\ succeeded # {}) =>
            /\ Cardinality({u \in users : u.email = <<"d", "@", "x">>}) = 1
            /\ pending_users = {}
            /\ Cardinality(succeeded) = 1

====
